---- MODULE Spec2Model ----
(***************************************************************************)
(* Watchman: the retrying wall-clock scheduler (internal/scheduler) and    *)
(* the fan-out job monitor (internal/jobs).                                *)
(*                                                                         *)
(* SchedSpec models one Scheduler value: NewScheduler, Start, the gocron   *)
(* triggers firing runCheck, NextRun and Stop.                             *)
(* FanSpec models one Monitor.CheckAll cycle on the parallel path.         *)
(***************************************************************************)
EXTENDS Integers, Sequences, FiniteSets, TLC

VARIABLES
    cfg,          \* Scheduler.cfg.Scheduler: CheckTimes, Timezone, Retry
    s,            \* "none" before NewScheduler, "nil" when it failed, "ok"
    newErr,       \* the error returned by NewScheduler ("" = nil)
    location,     \* Scheduler.location
    jobs,         \* the jobs gocron holds: <<[hour, minute, next]>>, next = 0 unscheduled
    started,      \* gocron scheduler started (timers armed)
    shutdown,     \* gocron Shutdown has been requested
    startRes,     \* what Start returned: "none", "ok", "err"
    stopRes,      \* what Stop returned: "none", "pending", "ok", "timeout"
    rc,           \* the runCheck activations: pc, i, attempts, lastErr, and the
                  \* handler calls made, failed, and the index of the first that succeeded
    now,          \* wall clock, in minutes
    fires,        \* number of trigger firings so far
    ctxCancelled, \* the context given to Start, and handed to every handler call
    callerCancelled, \* the caller of Start has cancelled its context
    nextRunRes,   \* what the last NextRun call returned
    fcfg,         \* Monitor.cfg: Monitoring.Parallel and Servers, with the databases behind them
    mpc,          \* CheckAll / checkParallel position of the calling goroutine
    spawned,      \* servers visited so far by the loop of checkParallel / checkSequential
    wg,           \* sync.WaitGroup counter
    sem,          \* number of tokens in the semaphore channel
    wpc,          \* position of each worker goroutine
    results,      \* checkParallel's / checkSequential's results slice
    report,       \* the CheckResult CheckAll returned ("none" before)
    checkErr,     \* the error CheckAll returned ("none" before, "nil" = no error)
    probes,       \* per server name, the calls made on its database in this cycle
    history,      \* the CheckResults returned so far, one per CheckAll call
    mctx,         \* the context given to CheckAll: cancelled, and at the cancellation
                  \* the checks in progress and the results already written
    single,       \* what Monitor.CheckServer returned
    uses,         \* the database connections made so far: which call made and used each
    exitCode,     \* what CheckResult.GetExitCode returned, and for which report
    flt,          \* one evaluation of matchPattern or DB.matchesFilter
    svc,          \* one run of Service.Execute
    ntf,          \* one call of Notifier.NotifyFailedJobs
    upd           \* one call of Updater.CheckForUpdate or Updater.Update

svars == <<cfg, s, newErr, location, jobs, started, shutdown, startRes, stopRes,
           rc, now, fires, ctxCancelled, callerCancelled, nextRunRes>>
fvars == <<fcfg, mpc, spawned, wg, sem, wpc, results, report, checkErr, probes, history,
           mctx, single, uses, exitCode>>
pvars == <<flt, svc, ntf, upd>>
vars == <<cfg, s, newErr, location, jobs, started, shutdown, startRes, stopRes,
          rc, now, fires, ctxCancelled, callerCancelled, nextRunRes,
          fcfg, mpc, spawned, wg, sem, wpc, results, report, checkErr, probes, history,
          mctx, single, uses, exitCode, flt, svc, ntf, upd>>

\* The components that are not running in a specification stay as constructed.
FilterIdle == flt = [pc |-> "idle"]
ServiceIdle == svc = [pc |-> "idle"]
NotifierIdle == ntf = [pc |-> "idle"]
UpdaterIdle == upd = [pc |-> "idle"]

(***************************************************************************)
(* Bounds of the model.                                                    *)
(***************************************************************************)
MaxTimes == 2          \* longest CheckTimes list
MaxAttemptsBound == 3  \* largest Retry.MaxAttempts
MaxFires == 2          \* trigger firings explored
MaxServers == 6        \* largest number of enabled servers in one cycle
MaxConc == 3           \* largest configured Parallel.MaxConcurrent

Min(a, b) == IF a < b THEN a ELSE b

SetMin(S) == CHOOSE x \in S : \A y \in S : x <= y

(***************************************************************************)
(* Time strings are sequences of one-character strings.                    *)
(***************************************************************************)
Digits == {"0", "1", "2", "3", "4", "5", "6", "7", "8", "9"}

DigitVal(c) ==
    CASE c = "0" -> 0 [] c = "1" -> 1 [] c = "2" -> 2 [] c = "3" -> 3
      [] c = "4" -> 4 [] c = "5" -> 5 [] c = "6" -> 6 [] c = "7" -> 7
      [] c = "8" -> 8 [] c = "9" -> 9

isDigit(str, i) == i < Len(str) /\ str[i + 1] \in Digits

Drop(str, n) == SubSeq(str, n + 1, Len(str))

\* time.getnum: a one- or two-digit number; exactly two digits when fixed.
getnum(str, fixed) ==
    IF ~isDigit(str, 0) THEN [ok |-> FALSE, val |-> 0, rest |-> str]
    ELSE IF ~isDigit(str, 1)
         THEN IF fixed THEN [ok |-> FALSE, val |-> 0, rest |-> str]
              ELSE [ok |-> TRUE, val |-> DigitVal(str[1]), rest |-> Drop(str, 1)]
         ELSE [ok |-> TRUE, val |-> DigitVal(str[1]) * 10 + DigitVal(str[2]),
               rest |-> Drop(str, 2)]

\* time.Parse("15:04", str): stdHour, the literal ":", stdZeroMinute, no extra text.
TimeParse1504(str) ==
    LET h == getnum(str, FALSE)
        bad == [err |-> TRUE, hour |-> 0, minute |-> 0]
    IN  IF ~h.ok \/ h.val >= 24 THEN bad
        ELSE IF Len(h.rest) = 0 \/ h.rest[1] # ":" THEN bad
        ELSE LET m == getnum(Drop(h.rest, 1), TRUE)
             IN  IF ~m.ok \/ m.val >= 60 THEN bad
                 ELSE IF Len(m.rest) > 0 THEN bad
                 ELSE [err |-> FALSE, hour |-> h.val, minute |-> m.val]

\* parseTime: (hour, minute, err)
parseTime(str) ==
    LET t == TimeParse1504(str)
    IN  IF t.err THEN [err |-> TRUE, hour |-> 0, minute |-> 0]
        ELSE [err |-> FALSE, hour |-> t.hour, minute |-> t.minute]

(***************************************************************************)
(* Configurations explored.                                                *)
(***************************************************************************)
T2359 == <<"2", "3", ":", "5", "9">>
T830 == <<"8", ":", "3", "0">>
T2500 == <<"2", "5", ":", "0", "0">>
T1260 == <<"1", "2", ":", "6", "0">>
TInvalid == <<"i", "n", "v", "a", "l", "i", "d">>
T080 == <<"0", "8", ":", "0">>
T2400 == <<"2", "4", ":", "0", "0">>
TExtra == <<"2", "3", ":", "5", "9", ":", "0", "0">>
TEmpty == <<>>

TimePool == {T2359, T830, T2500, T1260, TInvalid, T080, T2400, TExtra, TEmpty}

SeqsUpTo(S, n) == UNION {[1..k -> S] : k \in 0..n}

ZonePool == {"", "Local", "UTC", "Invalid/Timezone"}

\* The zones time.LoadLocation finds in the zone database.
KnownZones == {"UTC", "Asia/Ho_Chi_Minh"}

RetryPool ==
    [Enabled : {TRUE}, MaxAttempts : 0..MaxAttemptsBound, DelaySeconds : {0}]
    \cup [Enabled : {FALSE}, MaxAttempts : {0, MaxAttemptsBound}, DelaySeconds : {0}]

\* The wall clock when the scheduler is constructed: noon of the first day.
StartClock == 1440 + 720

(***************************************************************************)
(* Config.GetLocation and NewScheduler.                                    *)
(***************************************************************************)
GetLocation_Fallback(tz) ==
    IF tz = "" \/ tz = "Local" THEN [err |-> FALSE, loc |-> "Local"]
    ELSE IF tz \in KnownZones THEN [err |-> FALSE, loc |-> tz]
    ELSE [err |-> FALSE, loc |-> "Local"]

GetLocation(tz) ==
    IF tz = "" \/ tz = "Local" THEN [err |-> FALSE, loc |-> "Local"]
    ELSE IF tz \in KnownZones THEN [err |-> FALSE, loc |-> tz]
    ELSE [err |-> TRUE, loc |-> "nil"]

NewScheduler ==
    /\ s = "none"
    /\ LET l == GetLocation(cfg.Timezone)
       IN  IF l.err
           THEN /\ s' = "nil"
                /\ newErr' = "invalid timezone"
                /\ location' = "nil"
           ELSE /\ s' = "ok"
                /\ newErr' = ""
                /\ location' = l.loc
    /\ UNCHANGED <<cfg, jobs, started, shutdown, startRes, stopRes, rc, now, fires,
                   ctxCancelled, callerCancelled, nextRunRes>>
    /\ UNCHANGED <<fvars, pvars>>

(***************************************************************************)
(* Start: one gocron daily job per check time, then scheduler.Start().     *)
(***************************************************************************)
\* The first time with the given time of day strictly after t.
NextAfter(hour, minute, t) ==
    LET tod == hour * 60 + minute
        day == t \div 1440
    IN  IF day * 1440 + tod > t THEN day * 1440 + tod ELSE (day + 1) * 1440 + tod

\* gocron NewJob(DailyJob(1, NewAtTimes(NewAtTime(hour, minute, 0))), ...):
\* the job is held, unscheduled until the scheduler is started.
NewJob(hour, minute) ==
    IF hour > 23 \/ minute > 59
    THEN [err |-> TRUE, job |-> [hour |-> 0, minute |-> 0, next |-> 0]]
    ELSE [err |-> FALSE, job |-> [hour |-> hour, minute |-> minute, next |-> 0]]

RECURSIVE StartLoop(_, _, _)
StartLoop(times, i, js) ==
    IF i > Len(times) THEN [err |-> FALSE, jobs |-> js]
    ELSE LET p == parseTime(times[i])
         IN  IF p.err THEN [err |-> TRUE, jobs |-> js]
             ELSE IF p.hour < 0 \/ p.minute < 0 THEN [err |-> TRUE, jobs |-> js]
             ELSE LET nj == NewJob(p.hour, p.minute)
                  IN  IF nj.err THEN [err |-> TRUE, jobs |-> js]
                      ELSE StartLoop(times, i + 1, Append(js, nj.job))

RECURSIVE StartLoop_Skip(_, _, _)
StartLoop_Skip(times, i, js) ==
    IF i > Len(times) THEN [err |-> FALSE, jobs |-> js]
    ELSE LET p == parseTime(times[i])
         IN  IF p.err THEN StartLoop_Skip(times, i + 1, js)
             ELSE StartLoop_Skip(times, i + 1, Append(js, NewJob(p.hour, p.minute).job))

\* gocron scheduler.Start(): every held job gets its next run.
SchedulerStart(js, t) ==
    [j \in 1..Len(js) |-> [js[j] EXCEPT !.next = NextAfter(js[j].hour, js[j].minute, t)]]

StartResult_SkipInvalid(times, js, t) ==
    LET out == StartLoop_Skip(times, 1, js)
    IN  [err |-> FALSE, jobs |-> SchedulerStart(out.jobs, t), started |-> TRUE]

StartResult(times, js, t) ==
    LET out == StartLoop(times, 1, js)
    IN  IF out.err THEN [err |-> TRUE, jobs |-> out.jobs, started |-> FALSE]
        ELSE [err |-> FALSE, jobs |-> SchedulerStart(out.jobs, t), started |-> TRUE]

\* A runCheck activation before its first statement; job is the gocron job
\* whose trigger started it.
IdleRun == [pc |-> "idle", job |-> 0, i |-> 0, attempts |-> 0, lastErr |-> FALSE,
            calls |-> 0, fails |-> 0, sleeps |-> 0, firstOk |-> 0]

Start ==
    /\ s = "ok"
    /\ startRes = "none"
    /\ stopRes = "none"
    /\ LET r == StartResult(cfg.CheckTimes, jobs, now)
       IN  /\ jobs' = r.jobs
           /\ started' = r.started
           /\ startRes' = IF r.err THEN "err" ELSE "ok"
           /\ rc' = <<>>
    /\ UNCHANGED <<cfg, s, newErr, location, shutdown, stopRes, now, fires,
                   ctxCancelled, callerCancelled, nextRunRes>>
    /\ UNCHANGED <<fvars, pvars>>

(***************************************************************************)
(* runCheck: the handler, retried.                                         *)
(***************************************************************************)
Attempts_IgnoreEnabled(retry) == retry.MaxAttempts

\* attempts := 1; if cfg.Enabled { attempts = cfg.MaxAttempts }
Attempts(retry) == IF retry.Enabled THEN retry.MaxAttempts ELSE 1

RunCheckExit_Propagate(err) == IF err THEN "panicked" ELSE "done"

\* runCheck has no result: it returns normally whether or not an error is left.
RunCheckExit(err) == "done"

Running(r) == r.pc \in {"handler", "sleep"}

\* The process is alive: no runCheck goroutine has let an error escape.
Alive == \A j \in DOMAIN rc : rc[j].pc # "panicked"

MinNext(js) == SetMin({js[j].next : j \in 1..Len(js)})

\* for i := 0; i < attempts; i++ { if err := s.handler(ctx) ...
\* after the loop: lastErr is dropped and runCheck returns.
LoopHead(r) ==
    IF r.i < r.attempts
    THEN [r EXCEPT !.pc = "handler", !.calls = r.calls + 1]
    ELSE [r EXCEPT !.pc = RunCheckExit(r.lastErr)]

\* A gocron timer fires job j: the task runCheck(ctx) starts in its own
\* goroutine, a new activation in rc.  The clock advances to the fire time.  The
\* jobs are registered with no singleton or limit mode: the activations of
\* different jobs overlap, and a job is fired again at its next daily time
\* whether or not its earlier activation has returned.
Fire(j) ==
    /\ started /\ ~shutdown /\ Alive
    /\ fires < MaxFires
    /\ jobs[j].next = MinNext(jobs)
    /\ rc' = Append(rc, LoopHead([IdleRun EXCEPT !.job = j,
                                                 !.attempts = Attempts(cfg.Retry)]))
    /\ now' = jobs[j].next
    /\ jobs' = [jobs EXCEPT ![j].next = NextAfter(jobs[j].hour, jobs[j].minute, jobs[j].next)]
    /\ fires' = fires + 1
    /\ UNCHANGED <<cfg, s, newErr, location, started, shutdown, startRes, stopRes,
                   ctxCancelled, callerCancelled, nextRunRes>>
    /\ UNCHANGED <<fvars, pvars>>

AfterHandler_RetryOnSuccess(r, retry, err) ==
    LET r1 == [r EXCEPT !.lastErr = r.lastErr \/ err,
                        !.firstOk = IF ~err /\ r.firstOk = 0 THEN r.calls ELSE r.firstOk,
                        !.fails = IF err THEN r.fails + 1 ELSE r.fails]
    IN  IF retry.Enabled /\ r.i < r.attempts - 1
        THEN [r1 EXCEPT !.pc = "sleep", !.sleeps = r.sleeps + 1]
        ELSE [r1 EXCEPT !.pc = RunCheckExit(err)]

AfterHandler_SleepAfterLast(r, retry, err) ==
    IF err
    THEN LET r1 == [r EXCEPT !.lastErr = TRUE, !.fails = r.fails + 1]
         IN  IF retry.Enabled
             THEN [r1 EXCEPT !.pc = "sleep", !.sleeps = r.sleeps + 1]
             ELSE [r1 EXCEPT !.pc = RunCheckExit(TRUE)]
    ELSE [r EXCEPT !.firstOk = IF r.firstOk = 0 THEN r.calls ELSE r.firstOk,
                   !.pc = RunCheckExit(FALSE)]

\* if err != nil { lastErr = err
\*                 if cfg.Enabled && i < attempts-1 { time.Sleep(delay); continue } }
\* return
AfterHandler(r, retry, err) ==
    IF err
    THEN LET r1 == [r EXCEPT !.lastErr = TRUE, !.fails = r.fails + 1]
         IN  IF retry.Enabled /\ r.i < r.attempts - 1
             THEN [r1 EXCEPT !.pc = "sleep", !.sleeps = r.sleeps + 1]
             ELSE [r1 EXCEPT !.pc = RunCheckExit(TRUE)]
    ELSE [r EXCEPT !.firstOk = IF r.firstOk = 0 THEN r.calls ELSE r.firstOk,
                   !.pc = RunCheckExit(FALSE)]

\* The handler, running since LoopHead called it, returns nil or an error.
HandlerReturn(j) ==
    /\ rc[j].pc = "handler"
    /\ \E err \in BOOLEAN : rc' = [rc EXCEPT ![j] = AfterHandler(rc[j], cfg.Retry, err)]
    /\ UNCHANGED <<cfg, s, newErr, location, jobs, started, shutdown, startRes, stopRes,
                   now, fires, ctxCancelled, callerCancelled, nextRunRes>>
    /\ UNCHANGED <<fvars, pvars>>

\* time.Sleep(delay) returns; i++; the loop condition is evaluated again.
SleepDone(j) ==
    /\ rc[j].pc = "sleep"
    /\ rc' = [rc EXCEPT ![j] = LoopHead([rc[j] EXCEPT !.i = rc[j].i + 1])]
    /\ UNCHANGED <<cfg, s, newErr, location, jobs, started, shutdown, startRes, stopRes,
                   now, fires, ctxCancelled, callerCancelled, nextRunRes>>
    /\ UNCHANGED <<fvars, pvars>>

(***************************************************************************)
(* Stop: gocron Shutdown.  Pending timers are cancelled; Shutdown waits    *)
(* for running tasks up to its stop timeout and then returns.              *)
(***************************************************************************)
StopEffect_Cancel(ctx, runs) ==
    [ctx |-> TRUE,
     rc |-> [j \in DOMAIN runs |->
               IF Running(runs[j]) THEN [runs[j] EXCEPT !.pc = "done"] ELSE runs[j]]]

\* Stop only calls s.scheduler.Shutdown(): the context bound into the task at
\* Start is the caller's, and the runCheck goroutines are left alone.
StopEffect(ctx, runs) == [ctx |-> ctx, rc |-> runs]

Stop ==
    /\ s = "ok"
    /\ stopRes = "none"
    /\ shutdown' = TRUE
    /\ stopRes' = "pending"
    /\ LET e == StopEffect(ctxCancelled, rc)
       IN  /\ ctxCancelled' = e.ctx
           /\ rc' = e.rc
    /\ UNCHANGED <<cfg, s, newErr, location, jobs, started, startRes, now, fires,
                   callerCancelled, nextRunRes>>
    /\ UNCHANGED <<fvars, pvars>>

StopReturn ==
    /\ stopRes = "pending"
    /\ \/ /\ \A j \in DOMAIN rc : ~Running(rc[j])
          /\ stopRes' = "ok"
       \/ /\ \E j \in DOMAIN rc : Running(rc[j])
          /\ stopRes' = "timeout"
    /\ UNCHANGED <<cfg, s, newErr, location, jobs, started, shutdown, startRes, rc, now,
                   fires, ctxCancelled, callerCancelled, nextRunRes>>
    /\ UNCHANGED <<fvars, pvars>>

\* The caller of Start cancels the context it passed.
CancelCtx ==
    /\ startRes = "ok"
    /\ ~callerCancelled
    /\ callerCancelled' = TRUE
    /\ ctxCancelled' = TRUE
    /\ UNCHANGED <<cfg, s, newErr, location, jobs, started, shutdown, startRes, stopRes,
                   rc, now, fires, nextRunRes>>
    /\ UNCHANGED <<fvars, pvars>>

(***************************************************************************)
(* NextRun.                                                                *)
(***************************************************************************)
\* gocron job.NextRun(): the zero time (0), and no error, while unscheduled.
JobNextRun(job) == [err |-> FALSE, next |-> job.next]

RECURSIVE NextRunLoop_Last(_, _, _)
NextRunLoop_Last(js, i, nextRun) ==
    IF i > Len(js) THEN nextRun
    ELSE NextRunLoop_Last(js, i + 1, JobNextRun(js[i]).next)

\* for _, job := range jobs { next, err := job.NextRun(); if err != nil { continue }
\*     if nextRun.IsZero() || next.Before(nextRun) { nextRun = next } }
RECURSIVE NextRunLoop(_, _, _)
NextRunLoop(js, i, nextRun) ==
    IF i > Len(js) THEN nextRun
    ELSE LET r == JobNextRun(js[i])
         IN  IF r.err THEN NextRunLoop(js, i + 1, nextRun)
             ELSE IF nextRun = 0 \/ r.next < nextRun
                  THEN NextRunLoop(js, i + 1, r.next)
                  ELSE NextRunLoop(js, i + 1, nextRun)

NextRunResult(js) ==
    IF Len(js) = 0 THEN [err |-> "no scheduled jobs", time |-> 0]
    ELSE LET n == NextRunLoop(js, 1, 0)
         IN  IF n = 0 THEN [err |-> "no upcoming runs scheduled", time |-> 0]
             ELSE [err |-> "", time |-> n]

Perms(n) == {f \in [1..n -> 1..n] : \A a, b \in 1..n : f[a] = f[b] => a = b}

\* gocron Jobs() lists the held jobs ordered by their ids, which are random.
NextRun ==
    /\ s = "ok"
    /\ ~shutdown
    /\ \E f \in Perms(Len(jobs)) :
         LET r == NextRunResult([j \in 1..Len(jobs) |-> jobs[f[j]]])
         IN  nextRunRes' = [called |-> TRUE, err |-> r.err, time |-> r.time]
    /\ UNCHANGED <<cfg, s, newErr, location, jobs, started, shutdown, startRes, stopRes,
                   rc, now, fires, ctxCancelled, callerCancelled>>
    /\ UNCHANGED <<fvars, pvars>>

(***************************************************************************)
(* The scheduler's specification.                                          *)
(***************************************************************************)
FanIdle ==
    /\ fcfg = [Enabled |-> FALSE, MaxConcurrent |-> 0, Servers |-> <<>>, db |-> <<>>]
    /\ mpc = "idle"
    /\ spawned = 0
    /\ wg = 0
    /\ sem = 0
    /\ wpc = <<>>
    /\ results = <<>>
    /\ report = "none"
    /\ checkErr = "none"
    /\ probes = <<>>
    /\ history = <<>>
    /\ mctx = [cancelled |-> FALSE, inflight |-> {}, done |-> {}, snapshot |-> <<>>]
    /\ single = [called |-> FALSE, name |-> 0, view |-> "no",
                 report |-> [Status |-> "nil"], err |-> "none"]
    /\ uses = {}
    /\ exitCode = [called |-> FALSE, of |-> "none", code |-> 0]

\* Every list of check times and retry policy in the zone UTC, and every zone
\* with the lists of at most one check time.
CfgPool ==
    [CheckTimes : SeqsUpTo(TimePool, MaxTimes), Timezone : {"UTC"}, Retry : RetryPool]
    \cup [CheckTimes : SeqsUpTo(TimePool, 1), Timezone : ZonePool,
          Retry : {[Enabled |-> TRUE, MaxAttempts |-> MaxAttemptsBound, DelaySeconds |-> 0]}]

SchedInit ==
    /\ cfg \in CfgPool
    /\ s = "none"
    /\ newErr = ""
    /\ location = "nil"
    /\ jobs = <<>>
    /\ started = FALSE
    /\ shutdown = FALSE
    /\ startRes = "none"
    /\ stopRes = "none"
    /\ rc = <<>>
    /\ now = StartClock
    /\ fires = 0
    /\ ctxCancelled = FALSE
    /\ callerCancelled = FALSE
    /\ nextRunRes = [called |-> FALSE, err |-> "", time |-> 0]
    /\ FanIdle
    /\ FilterIdle /\ ServiceIdle /\ NotifierIdle /\ UpdaterIdle

SchedNext ==
    \/ NewScheduler
    \/ Start
    \/ \E j \in 1..Len(jobs) : Fire(j)
    \/ \E j \in DOMAIN rc : HandlerReturn(j)
    \/ \E j \in DOMAIN rc : SleepDone(j)
    \/ Stop
    \/ StopReturn
    \/ CancelCtx
    \/ NextRun

SchedSpec == SchedInit /\ [][SchedNext]_vars

(***************************************************************************)
(* Properties of the scheduler.                                            *)
(***************************************************************************)
\* The index of the first attempt of the firing that returned nil; when none of
\* the attempts made did, an index beyond them.
FirstOkIndex(r) == IF r.firstOk > 0 THEN r.firstOk ELSE r.calls + 1

\* C1: with retry enabled, a firing never invokes the handler more than
\* MaxAttempts times, makes no invocation after one that returned nil, and, once
\* runCheck has returned, has made exactly min(k, MaxAttempts) invocations, k
\* being the index of the first attempt that returned nil.
C1_RetryStopsAtFirstSuccess ==
    \A j \in DOMAIN rc :
        cfg.Retry.Enabled /\ rc[j].pc # "idle" =>
            /\ rc[j].calls <= cfg.Retry.MaxAttempts
            /\ rc[j].firstOk > 0 => rc[j].calls = rc[j].firstOk
            /\ ~Running(rc[j]) =>
                   rc[j].calls = Min(FirstOkIndex(rc[j]), cfg.Retry.MaxAttempts)

\* fail, fail, succeed with MaxAttempts = 3: three invocations, then returned.
C1_Witness ==
    \E j \in DOMAIN rc :
        /\ cfg.Retry.Enabled /\ cfg.Retry.MaxAttempts = 3
        /\ rc[j].pc = "done" /\ rc[j].calls = 3 /\ rc[j].fails = 2 /\ rc[j].firstOk = 3

\* C2: with retry disabled, a firing invokes the handler exactly once, whatever
\* MaxAttempts is and whether or not the invocation fails.
C2_NoRetryOneCall ==
    \A j \in DOMAIN rc :
        ~cfg.Retry.Enabled /\ rc[j].pc # "idle" =>
            /\ rc[j].calls = 1
            /\ rc[j].sleeps = 0

C2_Witness ==
    \E j \in DOMAIN rc :
        /\ ~cfg.Retry.Enabled /\ cfg.Retry.MaxAttempts = MaxAttemptsBound
        /\ rc[j].pc = "done" /\ rc[j].calls = 1 /\ rc[j].fails = 1

AllFailed(r) == ~Running(r) /\ r.pc # "idle" /\ r.calls > 0 /\ r.fails = r.calls

\* C3: a firing whose every attempt failed returns normally (no error escapes
\* runCheck), makes no attempt beyond the configured ones, and leaves the
\* scheduler running: when the job is due next, its trigger can fire again.
C3_FailedCycleSwallowed ==
    \A j \in DOMAIN rc :
        AllFailed(rc[j]) =>
            /\ rc[j].pc = "done"
            /\ rc[j].calls = rc[j].attempts
            /\ (started /\ ~shutdown /\ fires < MaxFires /\ Alive
                  /\ jobs[rc[j].job].next = MinNext(jobs)) => ENABLED Fire(rc[j].job)

C3_Witness ==
    \E j \in DOMAIN rc :
        /\ AllFailed(rc[j]) /\ rc[j].calls = 3
        /\ fires = 1
        /\ ENABLED Fire(rc[j].job)

\* A fire time of the form H:MM or HH:MM (digits), read by position.
WellFormed(str) ==
    /\ Len(str) \in {4, 5}
    /\ str[Len(str) - 2] = ":"
    /\ \A i \in (1..Len(str)) \ {Len(str) - 2} : str[i] \in Digits

HourOf(str) ==
    IF Len(str) = 4 THEN DigitVal(str[1]) ELSE DigitVal(str[1]) * 10 + DigitVal(str[2])

MinuteOf(str) == DigitVal(str[Len(str) - 1]) * 10 + DigitVal(str[Len(str)])

BadTime(str) == ~WellFormed(str) \/ HourOf(str) > 23 \/ MinuteOf(str) > 59

HasBadTime == \E i \in 1..Len(cfg.CheckTimes) : BadTime(cfg.CheckTimes[i])

\* C4: when a configured fire time is malformed or has its hour outside [0,23]
\* or its minute outside [0,59], Start returns an error and the gocron scheduler
\* is never started: no job gets a next run, no trigger fires, no handler runs.
C4_StartFailsFast ==
    (startRes # "none" /\ HasBadTime) =>
        /\ startRes = "err"
        /\ ~started
        /\ fires = 0
        /\ \A j \in 1..Len(jobs) : jobs[j].next = 0
        /\ rc = <<>>

C4_Witness ==
    /\ startRes = "err"
    /\ cfg.CheckTimes = <<T2359, T2500>>
    /\ Len(jobs) = 1

\* C5 (the claim as stated): after Start failed on an invalid fire time, at
\* whatever position of the list, no trigger is registered and NextRun fails
\* with "no scheduled jobs".
C5_NothingRegisteredAfterFailedStart ==
    startRes = "err" =>
        /\ Len(jobs) = 0
        /\ nextRunRes.called => nextRunRes.err = "no scheduled jobs"

\* C6: Stop neither cancels the context the handler runs under nor touches a
\* running cycle; the context is cancelled by the caller of Start alone, and a
\* cycle that was running when Stop was called can still take its next step.
C6_StopLeavesRunningCycle ==
    /\ [][(~shutdown /\ shutdown') => (rc' = rc /\ ctxCancelled' = ctxCancelled)]_vars
    /\ [](ctxCancelled => callerCancelled)
    /\ [](\A j \in DOMAIN rc :
            /\ (shutdown /\ rc[j].pc = "handler") => ENABLED HandlerReturn(j)
            /\ (shutdown /\ rc[j].pc = "sleep") => ENABLED SleepDone(j))

\* Stop returned while a cycle was running, and that cycle has since finished.
C6_Witness ==
    /\ stopRes = "timeout"
    /\ ~ctxCancelled
    /\ \E j \in DOMAIN rc : rc[j].pc = "done" /\ rc[j].calls = 2
    /\ \A j \in DOMAIN rc : ~Running(rc[j])

ScheduledNexts(js) == {js[j].next : j \in 1..Len(js)} \ {0}

\* C7: NextRun returns the minimum of the next fire times of the registered
\* triggers; it returns an error when no trigger is registered, or when none
\* has a next fire time.
C7_NextRunIsMinimum ==
    [][nextRunRes' # nextRunRes =>
         /\ nextRunRes'.called
         /\ Len(jobs) = 0 => nextRunRes'.err = "no scheduled jobs"
         /\ (Len(jobs) > 0 /\ ScheduledNexts(jobs) = {}) => nextRunRes'.err # ""
         /\ ScheduledNexts(jobs) # {} =>
              /\ nextRunRes'.err = ""
              /\ nextRunRes'.time = SetMin(ScheduledNexts(jobs))]_vars

\* Two triggers, the later-registered one due first, and NextRun returned it.
C7_Witness ==
    /\ nextRunRes.called /\ nextRunRes.err = ""
    /\ Len(jobs) = 2
    /\ jobs[2].next < jobs[1].next
    /\ nextRunRes.time = jobs[2].next

InvalidZone(tz) == tz \notin ({"", "Local"} \cup KnownZones)

\* C8: with an invalid timezone NewScheduler returns an error and no Scheduler:
\* no trigger is ever registered or fired for that configuration.
C8_InvalidTimezoneFailsConstruction ==
    (s # "none" /\ InvalidZone(cfg.Timezone)) =>
        /\ s = "nil"
        /\ newErr # ""
        /\ Len(jobs) = 0
        /\ ~started
        /\ fires = 0
        /\ startRes = "none"

C8_Witness == s = "nil" /\ cfg.Timezone = "Invalid/Timezone"

(***************************************************************************)
(* Monitor.CheckAll.  A server is named by its position in Config.Servers; *)
(* 0 stands for the empty name of a zero ServerResult.  Job names and      *)
(* filter patterns are sequences of one-character strings.                 *)
(***************************************************************************)
DefaultMaxConcurrent == 5

MaxTargets == 2        \* longest Config.Servers list with free database answers
MaxCycles == 2         \* CheckAll calls made on one Monitor

matchPattern_SuffixFirst(name, pattern) ==
    IF pattern = <<"*">> THEN TRUE
    ELSE IF Len(pattern) > 1 /\ pattern[1] = "*"
    THEN LET suffix == SubSeq(pattern, 2, Len(pattern))
         IN  /\ Len(name) >= Len(suffix)
             /\ SubSeq(name, Len(name) - Len(suffix) + 1, Len(name)) = suffix
    ELSE IF Len(pattern) > 1 /\ pattern[Len(pattern)] = "*"
    THEN LET prefix == SubSeq(pattern, 1, Len(pattern) - 1)
         IN  Len(name) >= Len(prefix) /\ SubSeq(name, 1, Len(prefix)) = prefix
    ELSE name = pattern

\* matchPattern: "*", a prefix pattern "p*", a suffix pattern "*s", or a literal.
matchPattern(name, pattern) ==
    IF pattern = <<"*">> THEN TRUE
    ELSE IF Len(pattern) > 1 /\ pattern[Len(pattern)] = "*"
    THEN LET prefix == SubSeq(pattern, 1, Len(pattern) - 1)
         IN  Len(name) >= Len(prefix) /\ SubSeq(name, 1, Len(prefix)) = prefix
    ELSE IF Len(pattern) > 1 /\ pattern[1] = "*"
    THEN LET suffix == SubSeq(pattern, 2, Len(pattern))
         IN  /\ Len(name) >= Len(suffix)
             /\ SubSeq(name, Len(name) - Len(suffix) + 1, Len(name)) = suffix
    ELSE name = pattern

matchesFilter_IncludeWins(filter, jobName) ==
    IF \E k \in 1..Len(filter.Include) : matchPattern(jobName, filter.Include[k])
    THEN TRUE
    ELSE /\ Len(filter.Include) = 0
         /\ ~\E k \in 1..Len(filter.Exclude) : matchPattern(jobName, filter.Exclude[k])

\* DB.matchesFilter with db.server.Jobs = filter.
matchesFilter(filter, jobName) ==
    LET included ==
            Len(filter.Include) > 0 =>
                \E k \in 1..Len(filter.Include) : matchPattern(jobName, filter.Include[k])
        excluded ==
            \E k \in 1..Len(filter.Exclude) : matchPattern(jobName, filter.Exclude[k])
    IN  included /\ ~excluded

KeepRow_Always(filter, row) == TRUE

\* The filter step of QueryFailedJobs' row loop.
KeepRow(filter, row) == matchesFilter(filter, row.JobName)

RECURSIVE ScanRows(_, _, _)
ScanRows(filter, rows, k) ==
    IF k > Len(rows) THEN <<>>
    ELSE (IF KeepRow(filter, rows[k]) THEN <<rows[k]>> ELSE <<>>)
             \o ScanRows(filter, rows, k + 1)

\* DB.QueryFailedJobs on the database of `server`, whose answer is resp: the
\* query fails, or its rows are scanned and filtered.
QueryFailedJobs(server, resp) ==
    IF resp.queryErr THEN [err |-> TRUE, jobs |-> <<>>]
    ELSE [err |-> FALSE, jobs |-> ScanRows(server.Jobs, resp.rows, 1)]

NoFilter == [Include |-> <<>>, Exclude |-> <<>>]

JobJ == <<"J">>

\* What the database of server i answers during the cycle: every third server
\* is unreachable, every third has no failed job, every third has one.
FleetResponse(i, shift) ==
    LET c == (i + shift) % 3
    IN  [newErr |-> FALSE, pingErr |-> (c = 1), queryErr |-> FALSE,
         rows |-> IF c = 0 THEN <<[ServerName |-> i, JobName |-> JobJ]>> ELSE <<>>]

ZeroResult == [ServerName |-> 0, Available |-> FALSE, FailedJobs |-> <<>>, Error |-> FALSE]

checkSingleServer_QueryErrUnavailable(server, resp) ==
    LET result == [ZeroResult EXCEPT !.ServerName = server.Name]
    IN  IF resp.newErr THEN [result EXCEPT !.Error = TRUE]
        ELSE IF resp.pingErr THEN [result EXCEPT !.Error = TRUE]
        ELSE LET q == QueryFailedJobs(server, resp)
             IN  IF q.err THEN [result EXCEPT !.Error = TRUE]
                 ELSE [result EXCEPT !.Available = TRUE, !.FailedJobs = q.jobs]

\* checkSingleServer: database.New, Ping, QueryFailedJobs.
checkSingleServer(server, resp) ==
    LET result == [ZeroResult EXCEPT !.ServerName = server.Name]
    IN  IF resp.newErr THEN [result EXCEPT !.Error = TRUE]
        ELSE IF resp.pingErr THEN [result EXCEPT !.Error = TRUE]
        ELSE LET q == QueryFailedJobs(server, resp)
             IN  IF q.err THEN [result EXCEPT !.Available = TRUE, !.Error = TRUE]
                 ELSE [result EXCEPT !.Available = TRUE, !.FailedJobs = q.jobs]

ProberCalls_CloseOnSuccessOnly(resp) ==
    IF resp.newErr THEN <<"New">>
    ELSE IF resp.pingErr THEN <<"New", "Ping">>
    ELSE IF resp.queryErr THEN <<"New", "Ping", "QueryFailedJobs">>
    ELSE <<"New", "Ping", "QueryFailedJobs", "Close">>

ProberCalls_NoEarlyReturn(resp) ==
    IF resp.newErr THEN <<"New">>
    ELSE <<"New", "Ping", "QueryFailedJobs", "Close">>

\* The calls checkSingleServer makes on the database package, in order.
ProberCalls(resp) ==
    IF resp.newErr THEN <<"New">>
    ELSE IF resp.pingErr THEN <<"New", "Ping", "Close">>
    ELSE <<"New", "Ping", "QueryFailedJobs", "Close">>

RECURSIVE ConcatJobs(_, _)
ConcatJobs(rs, i) ==
    IF i > Len(rs) THEN <<>>
    ELSE (IF rs[i].Available THEN rs[i].FailedJobs ELSE <<>>) \o ConcatJobs(rs, i + 1)

RECURSIVE UnavailableNames(_, _)
UnavailableNames(rs, i) ==
    IF i > Len(rs) THEN <<>>
    ELSE (IF rs[i].Available THEN <<>> ELSE <<rs[i].ServerName>>) \o UnavailableNames(rs, i + 1)

generateSummary_NoUnavailableForm(checked, available, failedJobs) ==
    IF Len(failedJobs) = 0 THEN <<"No failed jobs on", available, "servers">>
    ELSE LET serverMap == {failedJobs[k].ServerName : k \in 1..Len(failedJobs)}
         IN  <<Len(failedJobs), "failed",
               IF Len(failedJobs) > 1 THEN "jobs" ELSE "job", "on",
               Cardinality(serverMap),
               IF Cardinality(serverMap) > 1 THEN "servers" ELSE "server">>

\* generateSummary, the text kept as its parts.
generateSummary(checked, available, failedJobs) ==
    IF available = 0 /\ checked > 0 THEN <<"All", checked, "servers unavailable">>
    ELSE IF Len(failedJobs) = 0 THEN <<"No failed jobs on", available, "servers">>
    ELSE LET serverMap == {failedJobs[k].ServerName : k \in 1..Len(failedJobs)}
         IN  <<Len(failedJobs), "failed",
               IF Len(failedJobs) > 1 THEN "jobs" ELSE "job", "on",
               Cardinality(serverMap),
               IF Cardinality(serverMap) > 1 THEN "servers" ELSE "server">>

StatusOf_NoErrorClass(checked, available, failedJobs) ==
    IF Len(failedJobs) > 0 THEN "failed_jobs" ELSE "success"

StatusOf_AnyUnavailable(checked, available, failedJobs) ==
    IF available < checked THEN "error"
    ELSE IF Len(failedJobs) > 0 THEN "failed_jobs"
    ELSE "success"

\* aggregateResults' status: "success" unless one of the two conditions holds.
StatusOf(checked, available, failedJobs) ==
    IF available = 0 /\ checked > 0 THEN "error"
    ELSE IF Len(failedJobs) > 0 THEN "failed_jobs"
    ELSE "success"

AvailableCount_WithoutError(rs) ==
    Cardinality({i \in 1..Len(rs) : rs[i].Available /\ ~rs[i].Error})

\* cr.ServersAvailable++ for every result with Available set.
AvailableCount(rs) == Cardinality({i \in 1..Len(rs) : rs[i].Available})

aggregateResults(rs) ==
    LET checked == Len(rs)
        available == AvailableCount(rs)
        failedJobs == ConcatJobs(rs, 1)
    IN  [Status |-> StatusOf(checked, available, failedJobs),
         ServersChecked |-> checked,
         ServersAvailable |-> available,
         ServersUnavailable |-> UnavailableNames(rs, 1),
         FailedJobs |-> failedJobs,
         Summary |-> generateSummary(checked, available, failedJobs)]

NoServersReport ==
    [Status |-> "error", ServersChecked |-> 0, ServersAvailable |-> 0,
     ServersUnavailable |-> <<>>, FailedJobs |-> <<>>,
     Summary |-> <<"No enabled servers configured">>]

GetEnabledServers_All(servers) == servers

\* Config.GetEnabledServers
GetEnabledServers(servers) ==
    LET enabled(srv) == srv.Enabled
    IN  SelectSeq(servers, enabled)

\* servers := m.cfg.GetEnabledServers()
EnabledServers == GetEnabledServers(fcfg.Servers)

NumServers == Len(EnabledServers)

\* maxConcurrent := cfg.MaxConcurrent; if maxConcurrent <= 0 { maxConcurrent = 5 }
\* sem := make(chan struct{}, maxConcurrent)
SemCap(mc) == IF mc <= 0 THEN DefaultMaxConcurrent ELSE mc

CanSend_OffByOne(count, cap) == count <= cap

\* A send on the buffered channel sem proceeds while the buffer is not full.
CanSend(count, cap) == count < cap

WaitReturns_NoWait(counter) == TRUE

\* wg.Wait() returns when the counter is zero.
WaitReturns(counter) == counter = 0

MakeResults_PerSlot(n, cap) == [i \in 1..Min(n, cap) |-> ZeroResult]

\* results := make([]ServerResult, len(servers)), whatever the semaphore's size
MakeResults(n, cap) == [i \in 1..n |-> ZeroResult]

NewSeqResults_Reuse(old) == old

\* results := make([]ServerResult, 0, len(servers)): a new slice on every call
NewSeqResults(old) == <<>>

WorkerSlot_LoopVar(idx, loopVar) == loopVar

\* go func(idx int, server config.ServerConfig) {...}(i, srv): the worker's slot
\* is its own copy of the loop index, not the loop variable.
WorkerSlot(idx, loopVar) == idx

CheckAllError_Escalate(rs) ==
    IF \E i \in 1..Len(rs) : rs[i].Error THEN "error" ELSE "nil"

\* return m.aggregateResults(startTime, results), nil
CheckAllError(rs) == "nil"

\* CheckAll up to the choice of the path.
\* What the database calls of one checkSingleServer see of the context they are
\* given: it is not cancelled while they run ("no"), it is cancelled by the time
\* PingContext looks at it ("ping"), or after Ping returned and before the rows
\* of QueryContext are read ("query").
CtxViews == {"no", "ping", "query"}

\* db.Ping(ctx) and db.QueryFailedJobs(ctx, ...) derive their contexts from ctx:
\* PingContext and QueryContext fail once it is cancelled; database.New does
\* not look at it.
UnderCtx(resp, view) ==
    [resp EXCEPT !.pingErr = @ \/ view = "ping", !.queryErr = @ \/ view = "query"]

\* The views the check of index i can have: a check that was in progress when the
\* context was cancelled can have been anywhere; one started later finds it
\* cancelled at Ping.
ViewsOf(i) ==
    IF ~mctx.cancelled THEN {"no"}
    ELSE IF i \in mctx.inflight THEN CtxViews
    ELSE {"ping"}

NewDB_PerServer(server, call) == [server |-> server.Name, call |-> <<0, 0>>]

\* database.New returns a new *DB on every call: the call that made it
\* identifies it.
NewDB(server, call) == [server |-> server.Name, call |-> call]

\* The connection checkSingleServer makes and uses in cycle call[1] for the
\* server of index call[2], on the goroutine worker (0 is the caller's): none
\* when database.New fails.
UsesOf(server, resp, call, worker) ==
    IF resp.newErr THEN {}
    ELSE {[db |-> NewDB(server, call), server |-> server.Name,
           cycle |-> call[1], worker |-> worker]}

CheckAllCall ==
    /\ spawned' = 0
    /\ probes' = [k \in DOMAIN fcfg.Servers |-> <<>>]
    /\ IF NumServers = 0
       THEN /\ report' = NoServersReport
            /\ checkErr' = "nil"
            /\ history' = Append(history, NoServersReport)
            /\ mpc' = "returned"
            /\ UNCHANGED <<results, wpc, wg, sem>>
       ELSE IF fcfg.Enabled
       THEN /\ mpc' = "spawn"
            /\ results' = MakeResults(NumServers, SemCap(fcfg.MaxConcurrent))
            /\ wpc' = [i \in 1..NumServers |-> "none"]
            /\ wg' = 0
            /\ sem' = 0
            /\ UNCHANGED <<report, checkErr, history>>
       ELSE /\ mpc' = "seq"
            /\ results' = NewSeqResults(results)
            /\ UNCHANGED <<report, checkErr, history, wpc, wg, sem>>
    /\ UNCHANGED fcfg
    /\ UNCHANGED <<mctx, single, exitCode, uses, svars, pvars>>

\* The first CheckAll call on the Monitor.
CheckAllBegin ==
    /\ mpc = "idle"
    /\ CheckAllCall

\* A later CheckAll call, made after the previous one returned.
CheckAllAgain ==
    /\ mpc = "returned"
    /\ Len(history) < MaxCycles
    /\ CheckAllCall

\* checkParallel: wg.Add(1); go func(idx, server) {...}(i, srv)
Spawn ==
    /\ mpc = "spawn"
    /\ spawned < NumServers
    /\ wg' = wg + 1
    /\ wpc' = [wpc EXCEPT ![spawned + 1] = "acquire"]
    /\ spawned' = spawned + 1
    /\ mpc' = IF spawned + 1 = NumServers THEN "wait" ELSE "spawn"
    /\ UNCHANGED <<fcfg, sem, results, report, checkErr, probes, history>>
    /\ UNCHANGED <<mctx, single, exitCode, uses, svars, pvars>>

\* sem <- struct{}{}
Acquire(i) ==
    /\ wpc[i] = "acquire"
    /\ CanSend(sem, SemCap(fcfg.MaxConcurrent))
    /\ sem' = sem + 1
    /\ wpc' = [wpc EXCEPT ![i] = "check"]
    /\ UNCHANGED <<fcfg, mpc, spawned, wg, results, report, checkErr, probes, history>>
    /\ UNCHANGED <<mctx, single, exitCode, uses, svars, pvars>>

\* results[idx] = m.checkSingleServer(ctx, server)
CheckDone(i) ==
    /\ wpc[i] = "check"
    /\ \E view \in ViewsOf(i) :
        LET server == EnabledServers[i]
            resp == UnderCtx(fcfg.db[server.Name], view)
        IN  /\ results' = [results EXCEPT ![WorkerSlot(i, spawned)] =
                                              checkSingleServer(server, resp)]
            /\ probes' = [probes EXCEPT ![server.Name] = @ \o ProberCalls(resp)]
            /\ uses' = uses \cup UsesOf(server, resp, <<Len(history) + 1, i>>, i)
    /\ wpc' = [wpc EXCEPT ![i] = "release"]
    /\ UNCHANGED <<fcfg, mpc, spawned, wg, sem, report, checkErr, history>>
    /\ UNCHANGED <<mctx, single, exitCode, svars, pvars>>

Release_KeepSlot(i) ==
    /\ wpc[i] = "release"
    /\ wpc' = [wpc EXCEPT ![i] = "wgdone"]
    /\ UNCHANGED <<fcfg, mpc, spawned, wg, sem, results, report, checkErr, probes, history>>
    /\ UNCHANGED <<mctx, single, exitCode, uses, svars, pvars>>

\* deferred: <-sem
Release(i) ==
    /\ wpc[i] = "release"
    /\ sem' = sem - 1
    /\ wpc' = [wpc EXCEPT ![i] = "wgdone"]
    /\ UNCHANGED <<fcfg, mpc, spawned, wg, results, report, checkErr, probes, history>>
    /\ UNCHANGED <<mctx, single, exitCode, uses, svars, pvars>>

\* deferred: wg.Done()
WgDone(i) ==
    /\ wpc[i] = "wgdone"
    /\ wg' = wg - 1
    /\ wpc' = [wpc EXCEPT ![i] = "done"]
    /\ UNCHANGED <<fcfg, mpc, spawned, sem, results, report, checkErr, probes, history>>
    /\ UNCHANGED <<mctx, single, exitCode, uses, svars, pvars>>

ReturnedResults_NoneOnCancel(rs) == IF mctx.cancelled THEN <<>> ELSE rs

\* checkParallel and checkSequential end with "return results", whatever the
\* state of ctx.
ReturnedResults(rs) == rs

\* CheckAll's last statement: aggregate the results and return them with no error.
CheckAllReturn ==
    /\ report' = aggregateResults(ReturnedResults(results))
    /\ checkErr' = CheckAllError(ReturnedResults(results))
    /\ history' = Append(history, aggregateResults(ReturnedResults(results)))
    /\ mpc' = "returned"
    /\ UNCHANGED <<fcfg, spawned, wg, sem, wpc, results, probes>>
    /\ UNCHANGED <<mctx, single, exitCode, uses, svars, pvars>>

\* wg.Wait(); return results; CheckAll aggregates and returns.
WaitReturn ==
    /\ mpc = "wait"
    /\ WaitReturns(wg)
    /\ CheckAllReturn

\* checkSequential: one server after the other.
SeqStep ==
    /\ mpc = "seq"
    /\ spawned < NumServers
    /\ \E view \in ViewsOf(spawned + 1) :
        LET server == EnabledServers[spawned + 1]
            resp == UnderCtx(fcfg.db[server.Name], view)
        IN  /\ results' = Append(results, checkSingleServer(server, resp))
            /\ probes' = [probes EXCEPT ![server.Name] = @ \o ProberCalls(resp)]
            /\ uses' = uses \cup UsesOf(server, resp, <<Len(history) + 1, spawned + 1>>, 0)
    /\ spawned' = spawned + 1
    /\ UNCHANGED <<fcfg, mpc, wg, sem, wpc, report, checkErr, history>>
    /\ UNCHANGED <<mctx, single, exitCode, svars, pvars>>

SeqReturn ==
    /\ mpc = "seq"
    /\ spawned = NumServers
    /\ CheckAllReturn

\* The caller cancels the context it gave to CheckAll while CheckAll runs. The
\* checks inside checkSingleServer at that moment are in progress; those that
\* returned have their results written.
CancelCheck ==
    /\ mpc \in {"spawn", "wait", "seq"}
    /\ ~mctx.cancelled
    /\ mctx' = [cancelled |-> TRUE,
                inflight |-> IF mpc = "seq" THEN {spawned + 1} \cap (1..NumServers)
                             ELSE {i \in DOMAIN wpc : wpc[i] = "check"},
                done |-> IF mpc = "seq" THEN 1..spawned
                         ELSE {i \in DOMAIN wpc : wpc[i] \in {"release", "wgdone", "done"}},
                snapshot |-> results]
    /\ UNCHANGED <<fcfg, mpc, spawned, wg, sem, wpc, results, report, checkErr, probes,
                   history, single, uses, exitCode>>
    /\ UNCHANGED <<svars, pvars>>

\* CheckServer's loop over m.cfg.Servers: the position of the first server of
\* that name, enabled or not; 0 stands for serverCfg == nil.
FindServer(serverName) ==
    LET found == {k \in DOMAIN fcfg.Servers : fcfg.Servers[k].Name = serverName}
    IN  IF found = {} THEN 0 ELSE CHOOSE k \in found : \A l \in found : k <= l

\* The *CheckResult CheckServer returns with its "server not found" error.
NilReport == [Status |-> "nil"]

\* Monitor.CheckServer(ctx, serverName), called after CheckAll returned.
CheckServer(serverName, view) ==
    /\ mpc = "returned"
    /\ ~single.called
    /\ LET k == FindServer(serverName)
       IN  IF k = 0
           THEN /\ single' = [called |-> TRUE, name |-> serverName, view |-> view,
                              report |-> NilReport, err |-> "server not found"]
                /\ UNCHANGED <<probes, uses>>
           ELSE LET server == fcfg.Servers[k]
                    resp == UnderCtx(fcfg.db[server.Name], view)
                    result == checkSingleServer(server, resp)
                IN  /\ single' = [called |-> TRUE, name |-> serverName, view |-> view,
                                  report |-> aggregateResults(<<result>>), err |-> "nil"]
                    /\ probes' = [probes EXCEPT ![server.Name] = @ \o ProberCalls(resp)]
                    /\ uses' = uses \cup UsesOf(server, resp, <<0, k>>, 0)
    /\ UNCHANGED <<fcfg, mpc, spawned, wg, sem, wpc, results, report, checkErr, history, mctx,
                   exitCode>>
    /\ UNCHANGED <<svars, pvars>>

\* CheckResult.HasFailedJobs
HasFailedJobs(cr) == Len(cr.FailedJobs) > 0

GetExitCode_ErrorUnmapped(cr) == IF HasFailedJobs(cr) THEN 1 ELSE 0

\* CheckResult.GetExitCode
GetExitCode(cr) ==
    IF cr.Status = "error" THEN 3
    ELSE IF HasFailedJobs(cr) THEN 1
    ELSE 0

\* cr.GetExitCode() on the report CheckAll returned (of = "CheckAll") or on the
\* one CheckServer returned with no error (of = "CheckServer").
GetExitCodeCall(of) ==
    /\ ~exitCode.called
    /\ of = "CheckAll" => mpc = "returned"
    /\ of = "CheckServer" => single.called /\ single.err = "nil"
    /\ exitCode' = [called |-> TRUE, of |-> of,
                    code |-> GetExitCode(IF of = "CheckAll" THEN report ELSE single.report)]
    /\ UNCHANGED <<fcfg, mpc, spawned, wg, sem, wpc, results, report, checkErr, probes,
                   history, mctx, single, uses>>
    /\ UNCHANGED <<svars, pvars>>

SchedIdle ==
    /\ cfg = [CheckTimes |-> <<>>, Timezone |-> "UTC",
              Retry |-> [Enabled |-> FALSE, MaxAttempts |-> 0, DelaySeconds |-> 0]]
    /\ s = "none"
    /\ newErr = ""
    /\ location = "nil"
    /\ jobs = <<>>
    /\ started = FALSE
    /\ shutdown = FALSE
    /\ startRes = "none"
    /\ stopRes = "none"
    /\ rc = <<>>
    /\ now = StartClock
    /\ fires = 0
    /\ ctxCancelled = FALSE
    /\ callerCancelled = FALSE
    /\ nextRunRes = [called |-> FALSE, err |-> "", time |-> 0]

MonitorIdle ==
    /\ mpc = "idle"
    /\ spawned = 0
    /\ wg = 0
    /\ sem = 0
    /\ wpc = <<>>
    /\ results = <<>>
    /\ report = "none"
    /\ checkErr = "none"
    /\ probes = <<>>
    /\ history = <<>>
    /\ mctx = [cancelled |-> FALSE, inflight |-> {}, done |-> {}, snapshot |-> <<>>]
    /\ single = [called |-> FALSE, name |-> 0, view |-> "no",
                 report |-> [Status |-> "nil"], err |-> "none"]
    /\ uses = {}
    /\ exitCode = [called |-> FALSE, of |-> "none", code |-> 0]

(***************************************************************************)
(* The fan-out's specification: one cycle over n enabled servers without   *)
(* job filters, their databases answering as FleetResponse says.           *)
(***************************************************************************)
FanCfg(enabled, mc, n, shift) ==
    [Enabled |-> enabled, MaxConcurrent |-> mc,
     Servers |-> [i \in 1..n |-> [Name |-> i, Enabled |-> TRUE, Jobs |-> NoFilter]],
     db |-> [i \in 1..n |-> FleetResponse(i, shift)]]

FanInit ==
    /\ fcfg \in {FanCfg(e, mc, n, shift) :
                    e \in BOOLEAN, mc \in -1..MaxConc, n \in 0..MaxServers, shift \in 0..2}
    /\ MonitorIdle
    /\ SchedIdle
    /\ FilterIdle /\ ServiceIdle /\ NotifierIdle /\ UpdaterIdle

FanNext ==
    \/ CheckAllBegin
    \/ Spawn
    \/ \E i \in DOMAIN wpc : Acquire(i)
    \/ \E i \in DOMAIN wpc : CheckDone(i)
    \/ \E i \in DOMAIN wpc : Release(i)
    \/ \E i \in DOMAIN wpc : WgDone(i)
    \/ WaitReturn
    \/ SeqStep
    \/ SeqReturn

FanSpec == FanInit /\ [][FanNext]_vars

(***************************************************************************)
(* The fan-out under fair scheduling: one parallel cycle over up to        *)
(* MaxFairServers servers with every limit up to MaxConc, 0 standing for   *)
(* the default.  The Go scheduler runs some runnable goroutine: a step is  *)
(* taken whenever one can be.                                              *)
(***************************************************************************)
MaxFairServers == 4    \* most servers of a cycle run under fairness

FairFanInit ==
    /\ fcfg \in {FanCfg(TRUE, mc, n, 0) : mc \in 0..MaxConc, n \in 1..MaxFairServers}
    /\ MonitorIdle
    /\ SchedIdle
    /\ FilterIdle /\ ServiceIdle /\ NotifierIdle /\ UpdaterIdle

FairFanNext ==
    \/ CheckAllBegin
    \/ Spawn
    \/ \E i \in DOMAIN wpc : Acquire(i)
    \/ \E i \in DOMAIN wpc : CheckDone(i)
    \/ \E i \in DOMAIN wpc : Release(i)
    \/ \E i \in DOMAIN wpc : WgDone(i)
    \/ WaitReturn

FairFanSpec == FairFanInit /\ [][FairFanNext]_vars /\ WF_vars(FairFanNext)

(***************************************************************************)
(* The monitor's specification: up to MaxCycles cycles over a short server *)
(* list, every server of every kind of TargetKinds, on the sequential path *)
(* and on the parallel path under each concurrency limit of Limits.        *)
(***************************************************************************)
ETL_Daily == <<"E", "T", "L", "_", "D", "a", "i", "l", "y">>
ETL_test_job == <<"E", "T", "L", "_", "t", "e", "s", "t", "_", "j", "o", "b">>
Backup_X == <<"B", "a", "c", "k", "u", "p", "_", "X">>
PatETL == <<"E", "T", "L", "_", "*">>
PatETLTest == <<"E", "T", "L", "_", "t", "e", "s", "t", "_", "*">>

ETLFilter == [Include |-> <<PatETL>>, Exclude |-> <<PatETLTest>>]

ThreeJobs == <<ETL_Daily, ETL_test_job, Backup_X>>

\* A server of the list and what its database does in every cycle: database.New
\* fails ("new"), Ping fails ("ping"), the query fails ("query"), or the query
\* returns one row per name of names ("ok").
TargetKinds ==
    { [Enabled |-> TRUE, Jobs |-> NoFilter, outcome |-> "new", names |-> <<>>],
      [Enabled |-> TRUE, Jobs |-> NoFilter, outcome |-> "ping", names |-> ThreeJobs],
      [Enabled |-> TRUE, Jobs |-> ETLFilter, outcome |-> "query", names |-> <<>>],
      [Enabled |-> TRUE, Jobs |-> NoFilter, outcome |-> "ok", names |-> <<>>],
      [Enabled |-> TRUE, Jobs |-> ETLFilter, outcome |-> "ok", names |-> ThreeJobs],
      [Enabled |-> TRUE, Jobs |-> NoFilter, outcome |-> "ok", names |-> ThreeJobs],
      [Enabled |-> FALSE, Jobs |-> NoFilter, outcome |-> "ok", names |-> ThreeJobs] }

MonCfg(enabled, mc, fleet) ==
    [Enabled |-> enabled, MaxConcurrent |-> mc,
     Servers |-> [i \in 1..Len(fleet) |->
                    [Name |-> i, Enabled |-> fleet[i].Enabled, Jobs |-> fleet[i].Jobs]],
     db |-> [i \in 1..Len(fleet) |->
               [newErr |-> fleet[i].outcome = "new",
                pingErr |-> fleet[i].outcome = "ping",
                queryErr |-> fleet[i].outcome = "query",
                rows |-> [k \in 1..Len(fleet[i].names) |->
                            [ServerName |-> i, JobName |-> fleet[i].names[k]]]]]]

\* The concurrency limits compared for a cycle over n servers, and the default.
Limits(n) == {0, 1, 3, n, 10 * n}

NumEnabled(fleet) == Cardinality({i \in 1..Len(fleet) : fleet[i].Enabled})

MonCfgPool ==
    UNION { {MonCfg(TRUE, mc, fleet) : mc \in Limits(NumEnabled(fleet))}
                \cup {MonCfg(FALSE, 1, fleet)} :
            fleet \in SeqsUpTo(TargetKinds, MaxTargets) }

MonInit ==
    /\ fcfg \in MonCfgPool
    /\ MonitorIdle
    /\ SchedIdle
    /\ FilterIdle /\ ServiceIdle /\ NotifierIdle /\ UpdaterIdle

MonNext ==
    \/ CheckAllBegin
    \/ CheckAllAgain
    \/ Spawn
    \/ \E i \in DOMAIN wpc : Acquire(i)
    \/ \E i \in DOMAIN wpc : CheckDone(i)
    \/ \E i \in DOMAIN wpc : Release(i)
    \/ \E i \in DOMAIN wpc : WgDone(i)
    \/ WaitReturn
    \/ SeqStep
    \/ SeqReturn

MonSpec == MonInit /\ [][MonNext]_vars

(***************************************************************************)
(* The monitor's calls: one CheckAll call over the same server lists, on   *)
(* the sequential path, one check at a time and all checks at once, whose  *)
(* context the caller may cancel at any moment; after a CheckAll call that *)
(* was not cancelled, one CheckServer call with a context of its own, for  *)
(* a name of the list or for a name that is not in it.                     *)
(***************************************************************************)
CallCfgPool == {c \in MonCfgPool : c.MaxConcurrent \in {0, 1}}

CallInit ==
    /\ fcfg \in CallCfgPool
    /\ MonitorIdle
    /\ SchedIdle
    /\ FilterIdle /\ ServiceIdle /\ NotifierIdle /\ UpdaterIdle

CallNext ==
    \/ CheckAllBegin
    \/ Spawn
    \/ \E i \in DOMAIN wpc : Acquire(i)
    \/ \E i \in DOMAIN wpc : CheckDone(i)
    \/ \E i \in DOMAIN wpc : Release(i)
    \/ \E i \in DOMAIN wpc : WgDone(i)
    \/ WaitReturn
    \/ SeqStep
    \/ SeqReturn
    \/ CancelCheck
    \/ /\ ~mctx.cancelled
       /\ \E name \in 1..(Len(fcfg.Servers) + 1), view \in CtxViews : CheckServer(name, view)
    \/ \E of \in {"CheckAll", "CheckServer"} : GetExitCodeCall(of)

CallSpec == CallInit /\ [][CallNext]_vars

(***************************************************************************)
(* Properties of the fan-out.                                              *)
(***************************************************************************)
Checking == {i \in DOMAIN wpc : wpc[i] = "check"}

\* C9: on the parallel path never more than MaxConcurrent per-server checks are
\* executing at once, and never more than 5 when MaxConcurrent <= 0.
C9_ConcurrencyBounded ==
    /\ fcfg.MaxConcurrent > 0 => Cardinality(Checking) <= fcfg.MaxConcurrent
    /\ fcfg.MaxConcurrent <= 0 => Cardinality(Checking) <= 5

\* MaxConcurrent = 0 and six servers: five checks executing, the sixth worker
\* waiting for a slot.
C9_Witness ==
    /\ fcfg.MaxConcurrent = 0
    /\ Cardinality(Checking) = 5
    /\ \E i \in DOMAIN wpc : wpc[i] = "acquire"

\* C10: CheckAll builds its report and returns only after every worker it
\* launched has written its result and finished: the report is the aggregate of
\* the final results, one per enabled server.
C10_AggregationIsBarrier ==
    (fcfg.Enabled /\ NumServers > 0 /\ mpc = "returned") =>
        /\ \A i \in 1..NumServers : wpc[i] = "done" /\ results[i].ServerName = i
        /\ wg = 0 /\ sem = 0
        /\ report.ServersChecked = NumServers
        /\ report = aggregateResults([i \in 1..NumServers |->
                        checkSingleServer(EnabledServers[i],
                                          fcfg.db[EnabledServers[i].Name])])

C10_Witness ==
    /\ fcfg.Enabled /\ NumServers = 3 /\ fcfg.MaxConcurrent = 2
    /\ mpc = "returned"
    /\ report.ServersAvailable = 2
    /\ Len(report.ServersUnavailable) = 1

(***************************************************************************)
(* Properties of the monitor.                                              *)
(***************************************************************************)
OnParallelPath == mpc \in {"spawn", "wait"}

\* C11: on the parallel path a step that writes the results slice is the step of
\* one worker, which writes the slot of its own server and no other; the
\* CheckResult (counters, unavailable list, failed jobs) is written by CheckAll's
\* own goroutine alone, after wg.Wait() returned with every worker finished, and
\* no worker writes after that.
C11_WorkersWriteOwnSlot ==
    [][/\ (OnParallelPath /\ results' # results) =>
             \E i \in DOMAIN wpc :
                 /\ wpc[i] = "check" /\ wpc'[i] = "release"
                 /\ results'[i].ServerName = EnabledServers[i].Name
                 /\ \A k \in DOMAIN results : k # i => results'[k] = results[k]
                 /\ \A k \in DOMAIN wpc : k # i => wpc'[k] = wpc[k]
       /\ (OnParallelPath /\ (history' # history \/ checkErr' # checkErr)) =>
             /\ mpc = "wait" /\ mpc' = "returned"
             /\ wg = 0
             /\ \A i \in DOMAIN wpc : wpc[i] = "done"
             /\ results' = results /\ wpc' = wpc]_vars

\* Two workers hold a semaphore slot each and both have written their result.
C11_Witness ==
    /\ fcfg.Enabled /\ NumServers = 2 /\ mpc = "wait"
    /\ wpc[1] = "release" /\ wpc[2] = "release"
    /\ results[1].ServerName = 1 /\ results[2].ServerName = 2

\* The enabled servers of the configuration, by name.
Targets == {i \in DOMAIN fcfg.Servers : fcfg.Servers[i].Enabled}

\* Server i's database can be opened and answers the ping.
Reachable(i) == ~fcfg.db[i].newErr /\ ~fcfg.db[i].pingErr

Range(seq) == {seq[k] : k \in 1..Len(seq)}

\* The rows server i's query returns that pass server i's own filter.
Surviving(i) ==
    IF Reachable(i) /\ ~fcfg.db[i].queryErr
    THEN {row \in Range(fcfg.db[i].rows) : matchesFilter(fcfg.Servers[i].Jobs, row.JobName)}
    ELSE {}

\* C12: whatever the path (sequential, or parallel under a limit of 1, 3, the
\* number of servers, ten times that number, or the default) and whatever the
\* interleaving of the workers, the report CheckAll returns has the same set of
\* failed jobs and the same ServersChecked, ServersAvailable and
\* ServersUnavailable: those that the servers and their databases' answers
\* determine.
C12_SameReportForEveryLimit ==
    (mpc = "returned" /\ (~fcfg.Enabled \/ fcfg.MaxConcurrent \in Limits(NumServers))) =>
        /\ Range(report.FailedJobs) = UNION {Surviving(i) : i \in Targets}
        /\ report.ServersChecked = Cardinality(Targets)
        /\ report.ServersAvailable = Cardinality({i \in Targets : Reachable(i)})
        /\ Range(report.ServersUnavailable) = {i \in Targets : ~Reachable(i)}
        /\ Len(report.ServersUnavailable) = Cardinality({i \in Targets : ~Reachable(i)})

\* Two servers checked under a limit of ten times their number, the first with
\* failed jobs, the second unreachable.
C12_Witness ==
    /\ mpc = "returned" /\ fcfg.Enabled
    /\ NumServers = 2 /\ fcfg.MaxConcurrent = 10 * NumServers
    /\ Len(report.FailedJobs) = 3
    /\ report.ServersUnavailable = <<2>>

AllSurviving == UNION {Surviving(i) : i \in Targets}

\* C13: a report built from at least one checked server has status "error" when
\* no server was available, otherwise "failed_jobs" when its failed-job list is
\* not empty, otherwise "success".  So: every server unreachable gives "error";
\* some server reachable and no failed job gives "success"; a failed job gives
\* "failed_jobs" however many servers are unreachable.
C13_StatusClassification ==
    (mpc = "returned" /\ NumServers > 0) =>
        /\ report.ServersChecked > 0
        /\ report.Status =
               IF report.ServersAvailable = 0 THEN "error"
               ELSE IF Len(report.FailedJobs) > 0 THEN "failed_jobs"
               ELSE "success"
        /\ (\A i \in Targets : ~Reachable(i)) => report.Status = "error"
        /\ ((\E i \in Targets : Reachable(i)) /\ AllSurviving = {}) =>
               report.Status = "success"
        /\ AllSurviving # {} => report.Status = "failed_jobs"

\* One server unreachable, the other with failed jobs: "failed_jobs".
C13_Witness ==
    /\ mpc = "returned" /\ NumServers = 2
    /\ report.Status = "failed_jobs"
    /\ Len(report.ServersUnavailable) = 1
    /\ report.ServersAvailable = 1

\* C14: when no server is enabled (the list empty, or every server disabled)
\* CheckAll returns a report with status "error" and the summary "No enabled
\* servers configured", returns a nil error, and makes no call on any database.
C14_NoEnabledServers ==
    (mpc # "idle" /\ Targets = {}) =>
        /\ mpc = "returned"
        /\ report = NoServersReport
        /\ report.Status = "error"
        /\ report.Summary = <<"No enabled servers configured">>
        /\ checkErr = "nil"
        /\ \A k \in DOMAIN probes : probes[k] = <<>>
        /\ results = <<>> /\ wpc = <<>>

\* Two servers configured, both disabled, and CheckAll has returned.
C14_Witness ==
    /\ mpc = "returned"
    /\ Len(fcfg.Servers) = 2
    /\ \A k \in DOMAIN fcfg.Servers : ~fcfg.Servers[k].Enabled
    /\ report.Status = "error"

\* The ServerResult of the server named i in the results slice.
ResultsOf(i) == {results[k] : k \in {k \in DOMAIN results : results[k].ServerName = i}}

\* C15: an enabled server whose database cannot be opened or pinged is recorded
\* as data: its result has Available = FALSE and carries the error, its name is
\* in ServersUnavailable, it is not counted in ServersAvailable, CheckAll returns
\* no error, and when another server is reachable the status is not "error".
C15_UnreachableIsData ==
    (mpc = "returned" /\ NumServers > 0) =>
        \A i \in Targets :
            ~Reachable(i) =>
                /\ ResultsOf(i) = {[ServerName |-> i, Available |-> FALSE,
                                    FailedJobs |-> <<>>, Error |-> TRUE]}
                /\ i \in Range(report.ServersUnavailable)
                /\ report.ServersAvailable =
                       Cardinality({j \in Targets \ {i} : Reachable(j)})
                /\ checkErr = "nil"
                /\ (\E j \in Targets \ {i} : Reachable(j)) => report.Status # "error"

\* The first server's database cannot be opened, the second has no failed job:
\* the report says "success" and lists the first server as unavailable.
C15_Witness ==
    /\ mpc = "returned" /\ NumServers = 2
    /\ fcfg.db[1].newErr
    /\ report.Status = "success"
    /\ report.ServersUnavailable = <<1>>

\* C16: CheckAll never returns an error: whatever the servers and whatever
\* fails on their databases (open, ping, query; some or all of them), it returns
\* a CheckResult and a nil error, and a failure shows in the CheckResult only.
C16_CheckAllNeverErrors ==
    /\ checkErr \in {"none", "nil"}
    /\ mpc = "returned" =>
          /\ checkErr = "nil"
          /\ Len(history) > 0 /\ report = history[Len(history)]
          /\ report.Status \in {"success", "failed_jobs", "error"}
          /\ (Targets # {} /\ \A i \in Targets : ~Reachable(i)) => report.Status = "error"

\* Every server failed, one at database.New and one at Ping, and CheckAll
\* returned a report and no error.
C16_Witness ==
    /\ mpc = "returned" /\ NumServers = 2
    /\ fcfg.db[1].newErr /\ fcfg.db[2].pingErr
    /\ checkErr = "nil"
    /\ report.Status = "error"

\* C17: within the check of one server QueryFailedJobs is called only directly
\* after a Ping that returned nil: when Ping fails the query is not called in
\* that cycle and the server is reported unavailable.
C17_QueryOnlyAfterPing ==
    \A i \in DOMAIN probes :
        /\ \A k \in 1..Len(probes[i]) :
               probes[i][k] = "QueryFailedJobs" =>
                   k > 1 /\ probes[i][k - 1] = "Ping" /\ ~fcfg.db[i].pingErr
        /\ (probes[i] # <<>> /\ ~fcfg.db[i].newErr /\ fcfg.db[i].pingErr) =>
               /\ probes[i] = <<"New", "Ping", "Close">>
               /\ ResultsOf(i) = {[ServerName |-> i, Available |-> FALSE,
                                   FailedJobs |-> <<>>, Error |-> TRUE]}
               /\ mpc = "returned" => i \in Range(report.ServersUnavailable)

\* One server whose Ping fails: status "error", no server available, the
\* server listed as unavailable, and no query was made.
C17_Witness ==
    /\ mpc = "returned" /\ Len(fcfg.Servers) = 1 /\ NumServers = 1
    /\ fcfg.db[1].pingErr
    /\ probes[1] = <<"New", "Ping", "Close">>
    /\ report.Status = "error" /\ report.ServersAvailable = 0
    /\ report.ServersUnavailable = <<1>>

\* The report's failed jobs that carry the server name i, in the report's order.
FindingsOf(i) ==
    LET from(job) == job.ServerName = i
    IN  SelectSeq(report.FailedJobs, from)

\* The rows of server i's query that server i's own filter keeps, in order.
OwnSurvivors(i) ==
    LET passes(row) == matchesFilter(fcfg.Servers[i].Jobs, row.JobName)
    IN  SelectSeq(fcfg.db[i].rows, passes)

\* C18: the failed jobs of a returned report are exactly, for each enabled and
\* reachable server whose query succeeded, the rows of that query that pass that
\* server's own include/exclude filter, each once and in order: nothing of an
\* unreachable or disabled server, nothing its server's filter rejects, nothing
\* filtered with another server's patterns, and nothing lost.
C18_FindingsAreOwnFilteredRows ==
    (mpc = "returned" /\ NumServers > 0) =>
        /\ \A i \in DOMAIN fcfg.Servers :
               FindingsOf(i) =
                   IF i \in Targets /\ Reachable(i) /\ ~fcfg.db[i].queryErr
                   THEN OwnSurvivors(i)
                   ELSE <<>>
        /\ \A k \in 1..Len(report.FailedJobs) : report.FailedJobs[k].ServerName \in Targets

\* The same three rows on two servers, the first filtered with include ETL_* and
\* exclude ETL_test_*, the second unfiltered: one job of the first, three of the
\* second.
C18_Witness ==
    /\ mpc = "returned" /\ NumServers = 2
    /\ fcfg.Servers[1].Jobs = ETLFilter /\ fcfg.Servers[2].Jobs = NoFilter
    /\ report.FailedJobs =
           <<[ServerName |-> 1, JobName |-> ETL_Daily],
             [ServerName |-> 2, JobName |-> ETL_Daily],
             [ServerName |-> 2, JobName |-> ETL_test_job],
             [ServerName |-> 2, JobName |-> Backup_X]>>

Unavailable(rs) == {k \in DOMAIN rs : ~rs[k].Available}

\* C19: in every returned report ServersChecked is the number of enabled
\* servers, ServersAvailable the number of results with Available set,
\* ServersUnavailable the names of the results without it, each once, and
\* ServersChecked = ServersAvailable + len(ServersUnavailable).
C19_CountsAddUp ==
    mpc = "returned" =>
        /\ report.ServersChecked = Cardinality(Targets)
        /\ report.ServersAvailable = Cardinality(DOMAIN results \ Unavailable(results))
        /\ Range(report.ServersUnavailable) =
               {results[k].ServerName : k \in Unavailable(results)}
        /\ Len(report.ServersUnavailable) = Cardinality(Unavailable(results))
        /\ report.ServersChecked =
               report.ServersAvailable + Len(report.ServersUnavailable)

\* A server whose query failed after a good ping counts as available, next to
\* one that is unreachable.
C19_Witness ==
    /\ mpc = "returned" /\ NumServers = 2
    /\ results[1].Available /\ results[1].Error
    /\ report.ServersAvailable = 1
    /\ report.ServersUnavailable = <<2>>

ReportCore(r) ==
    [Status |-> r.Status, ServersChecked |-> r.ServersChecked,
     ServersAvailable |-> r.ServersAvailable,
     ServersUnavailable |-> r.ServersUnavailable,
     FailedJobs |-> Range(r.FailedJobs)]

\* C20: the reports of two CheckAll calls on the same Monitor, the servers and
\* their databases' answers unchanged, have the same status, ServersChecked,
\* ServersAvailable, ServersUnavailable and set of failed jobs; a call starts from
\* nothing the previous call left.
C20_CyclesAreIdempotent ==
    /\ \A a, b \in DOMAIN history : ReportCore(history[a]) = ReportCore(history[b])
    /\ (mpc = "returned" /\ NumServers > 0) => Len(results) = NumServers

\* Two cycles over two servers on the sequential path, with failed jobs.
C20_Witness ==
    /\ Len(history) = 2 /\ mpc = "returned"
    /\ ~fcfg.Enabled /\ NumServers = 2
    /\ history[1].Status = "failed_jobs"
    /\ Len(history[2].ServersUnavailable) = 1


(***************************************************************************)
(* Claims about the monitor's calls.                                       *)
(***************************************************************************)
\* A step of a running CheckAll call.
CheckAllStep ==
    \/ Spawn
    \/ \E i \in DOMAIN wpc : Acquire(i)
    \/ \E i \in DOMAIN wpc : CheckDone(i)
    \/ \E i \in DOMAIN wpc : Release(i)
    \/ \E i \in DOMAIN wpc : WgDone(i)
    \/ WaitReturn
    \/ SeqStep
    \/ SeqReturn

\* The result of the check of index i, had nobody cancelled anything.
UncancelledResult(i) ==
    checkSingleServer(EnabledServers[i], fcfg.db[EnabledServers[i].Name])

\* r's outcome is in the report rep: its name is in the unreachable list exactly
\* when it is not available, and its findings are among the report's.
InReport(r, rep) ==
    /\ (r.ServerName \in Range(rep.ServersUnavailable)) <=> ~r.Available
    /\ r.Available => \A k \in 1..Len(r.FailedJobs) :
                          r.FailedJobs[k] \in Range(rep.FailedJobs)

\* C21: when the context is cancelled while CheckAll runs, CheckAll goes on to
\* return a report and no error, and every check that had completed before the
\* cancellation keeps the result it had (the result of an uncancelled check),
\* which is in the report: its reachable flag and its findings.
C21_CancelKeepsCompletedWork ==
    mctx.cancelled =>
        /\ \A i \in mctx.done : /\ results[i] = mctx.snapshot[i]
                                /\ results[i] = UncancelledResult(i)
        /\ mpc # "returned" => ENABLED CheckAllStep
        /\ mpc = "returned" =>
            /\ checkErr = "nil"
            /\ report.ServersChecked = NumServers
            /\ report.ServersAvailable + Len(report.ServersUnavailable) = NumServers
            /\ \A i \in mctx.done : InReport(results[i], report)

\* A cancelled call returned: one check had completed with findings and stayed
\* in the report, another one was cut short by the cancellation.
C21_Witness ==
    /\ mctx.cancelled
    /\ mpc = "returned"
    /\ \E i \in mctx.done : /\ results[i].Available
                            /\ results[i].FailedJobs # <<>>
                            /\ Range(results[i].FailedJobs) \subseteq Range(report.FailedJobs)
    /\ \E i \in 1..NumServers : /\ i \notin mctx.done
                                /\ results[i] # UncancelledResult(i)


\* C22: CheckServer(name) for a configured server returns, with no error, the
\* report CheckAll returns for a server list made of that one server whose
\* database answers the same: the same status, counts, unavailable list, failed
\* jobs and summary.
C22_CheckServerMatchesCheckAll ==
    (/\ mpc = "returned"
     /\ single.called
     /\ single.view = "no"
     /\ Len(fcfg.Servers) = 1
     /\ single.name = fcfg.Servers[1].Name)
    => /\ single.err = "nil"
       /\ single.report = report


\* C23: every check of a server in a cycle makes one database connection of its
\* own: no connection is used by two checks (of two workers, or of two
\* cycles), no check of a cycle uses two, and when a cycle has returned each of
\* its servers whose connection could be made has one.
C23_OneConnectionPerCheck ==
    /\ \A u, v \in uses : u.db = v.db => u = v
    /\ \A u, v \in uses : (u.server = v.server /\ u.cycle = v.cycle) => u = v
    /\ mpc = "returned" =>
        \A c \in 1..Len(history), i \in 1..NumServers :
            ~fcfg.db[EnabledServers[i].Name].newErr =>
                \E u \in uses : /\ u.server = EnabledServers[i].Name
                                /\ u.cycle = c
                                /\ u.worker = IF fcfg.Enabled THEN i ELSE 0

\* Two cycles over two servers on the parallel path have returned: four
\* connections were made, by two workers in each cycle.
C23_Witness ==
    /\ mpc = "returned"
    /\ fcfg.Enabled
    /\ Len(history) = 2
    /\ NumServers = 2
    /\ Cardinality({u.db : u \in uses}) = 4
    /\ {u.worker : u \in uses} = {1, 2}


(***************************************************************************)
(* The job filter's specification: one evaluation of matchPattern on a     *)
(* name and a pattern, or of DB.matchesFilter on a job name under a        *)
(* server's include and exclude lists.                                     *)
(***************************************************************************)
MaxPatLen == 2         \* longest name and pattern given to matchPattern
MaxPatterns == 2       \* longest include list and exclude list

\* The characters of the names and patterns given to matchPattern.
PatternChars == {"a", "b", "*"}

PatternStrings == SeqsUpTo(PatternChars, MaxPatLen)

\* The patterns of the include and exclude lists, and the job names filtered.
FilterPatterns == {<<"*">>, <<"a", "*">>, <<"*", "a">>, <<"a">>, PatETL, PatETLTest}

FilterNames == {<<>>, <<"a">>, <<"a", "a">>, <<"b", "a">>, ETL_Daily, ETL_test_job, Backup_X}

FilterPool ==
    {[Include |-> inc, Exclude |-> exc] :
        inc \in SeqsUpTo(FilterPatterns, MaxPatterns),
        exc \in SeqsUpTo(FilterPatterns, MaxPatterns)}

\* matchPattern(name, pattern) is evaluated.
MatchPattern(name, pattern) ==
    /\ flt.pc = "idle"
    /\ flt' = [pc |-> "matchPattern", name |-> name, pattern |-> pattern,
               filter |-> NoFilter, result |-> matchPattern(name, pattern)]
    /\ UNCHANGED <<svars, fvars, svc, ntf, upd>>

\* db.matchesFilter(jobName) is evaluated on a DB whose server.Jobs is filter.
MatchesFilter(filter, jobName) ==
    /\ flt.pc = "idle"
    /\ flt' = [pc |-> "matchesFilter", name |-> jobName, pattern |-> <<>>,
               filter |-> filter, result |-> matchesFilter(filter, jobName)]
    /\ UNCHANGED <<svars, fvars, svc, ntf, upd>>

FilterInit ==
    /\ fcfg = FanCfg(FALSE, 1, 0, 0)
    /\ MonitorIdle
    /\ SchedIdle
    /\ FilterIdle /\ ServiceIdle /\ NotifierIdle /\ UpdaterIdle

\* One evaluation is made, on any of the inputs.
FilterNext ==
    /\ flt.pc = "idle"
    /\ \/ \E name \in PatternStrings, pattern \in PatternStrings : MatchPattern(name, pattern)
       \/ \E filter \in FilterPool, jobName \in FilterNames : MatchesFilter(filter, jobName)

FilterSpec == FilterInit /\ [][FilterNext]_vars

\* str begins with p; str ends with p.
StartsWith(str, p) == Len(str) >= Len(p) /\ \A k \in 1..Len(p) : str[k] = p[k]
EndsWith(str, p) ==
    Len(str) >= Len(p) /\ \A k \in 1..Len(p) : str[Len(str) - Len(p) + k] = p[k]

\* p without its last character; p without its first character.
AllButLast(p) == [k \in 1..(Len(p) - 1) |-> p[k]]
AllButFirst(p) == [k \in 1..(Len(p) - 1) |-> p[k + 1]]

\* C24: matchPattern(s, p) is true for p = "*"; for a pattern ending in "*" it
\* is true exactly when s starts with the pattern without its last character;
\* for a pattern starting with "*" and not ending in one, exactly when s ends
\* with the pattern without its first character; for every other pattern, the
\* empty one included, exactly when s = p.
C24_MatchPatternSemantics ==
    flt.pc = "matchPattern" =>
        LET subject == flt.name
            p == flt.pattern
            endsInStar == p # <<>> /\ p[Len(p)] = "*"
            startsWithStar == p # <<>> /\ p[1] = "*"
        IN  /\ p = <<"*">> => flt.result
            /\ endsInStar => (flt.result <=> StartsWith(subject, AllButLast(p)))
            /\ (startsWithStar /\ ~endsInStar) =>
                   (flt.result <=> EndsWith(subject, AllButFirst(p)))
            /\ (~startsWithStar /\ ~endsInStar) => (flt.result <=> subject = p)

\* "**" is a prefix pattern: it matches "*a", which starts with "*" and does
\* not end with it.
C24_Witness ==
    /\ flt.pc = "matchPattern"
    /\ flt.pattern = <<"*", "*">>
    /\ flt.name = <<"*", "a">>
    /\ flt.result

\* C25: matchesFilter(subject) is true exactly when the include list is empty
\* or the subject matches one of its patterns, and the subject matches no
\* exclude pattern; so a subject matching an include and an exclude pattern is
\* rejected, and with both lists empty every subject passes.
C25_ExcludeOverridesInclude ==
    flt.pc = "matchesFilter" =>
        LET inc == Range(flt.filter.Include)
            exc == Range(flt.filter.Exclude)
            hitInc == \E p \in inc : matchPattern(flt.name, p)
            hitExc == \E p \in exc : matchPattern(flt.name, p)
        IN  /\ flt.result <=> ((inc = {} \/ hitInc) /\ ~hitExc)
            /\ (hitInc /\ hitExc) => ~flt.result
            /\ (inc = {} /\ exc = {}) => flt.result

\* ETL_test_job under include ["ETL_*"], exclude ["ETL_test_*"] matches both
\* lists and is rejected.
C25_Witness ==
    /\ flt.pc = "matchesFilter"
    /\ flt.filter = ETLFilter
    /\ flt.name = ETL_test_job
    /\ matchPattern(flt.name, PatETL)
    /\ matchPattern(flt.name, PatETLTest)
    /\ ~flt.result


\* C26: for every report CheckAll or CheckServer returns, GetExitCode is 3
\* exactly when its status is "error", 1 exactly when it is "failed_jobs" and 0
\* exactly when it is "success".
C26_ExitCodeFollowsStatus ==
    exitCode.called =>
        LET cr == IF exitCode.of = "CheckAll" THEN report ELSE single.report
        IN  /\ cr.Status \in {"error", "failed_jobs", "success"}
            /\ exitCode.code = 3 <=> cr.Status = "error"
            /\ exitCode.code = 1 <=> cr.Status = "failed_jobs"
            /\ exitCode.code = 0 <=> cr.Status = "success"

\* CheckAll found no server reachable and CheckServer found failed jobs on a
\* disabled one: the exit code of CheckServer's report is 1.
C26_Witness ==
    /\ exitCode.called
    /\ exitCode.of = "CheckServer"
    /\ exitCode.code = 1
    /\ single.report.Status = "failed_jobs"
    /\ report.Status = "error"
    /\ GetExitCode(report) = 3


(***************************************************************************)
(* The Windows service's specification: one run of Service.Execute, with   *)
(* or without a stop handler, the service manager sending up to            *)
(* MaxRequests change requests and the start handler returning when it     *)
(* likes, with or without an error.                                        *)
(***************************************************************************)
MaxRequests == 2       \* change requests the service manager sends

SvcStates == {"StartPending", "Running", "StopPending", "Stopped"}

\* svc.Interrogate, svc.Stop, svc.Shutdown, and svc.Pause for the commands the
\* switch has no case for.
SvcCmds == {"Interrogate", "Stop", "Shutdown", "Pause"}

\* What Execute does, in order: a status sent on changes (echo: the request's
\* CurrentStatus sent back), a request received from r, cancel(), a call of
\* stopHandler, the return.
SvcEvent(ev, arg, echo) == [ev |-> ev, arg |-> arg, echo |-> echo]

\* NewService(cfg, start, stop, logger): stop is a function or nil.
NewService(hasStop) ==
    [pc |-> "new", stopHandler |-> hasStop, log |-> <<>>, ctxCancelled |-> FALSE,
     start |-> "none", result |-> "none", errChan |-> "empty", stopCalls |-> 0,
     requests |-> 0, cur |-> "none",
     step |-> 0, errno |-> -1]

\* changes <- StartPending; ctx, cancel := WithCancel; go func() { errChan <- s.startHandler(ctx) }()
ExecuteBegin ==
    /\ svc.pc = "new"
    /\ svc' = [svc EXCEPT !.pc = "report",
                          !.log = Append(@, SvcEvent("status", "StartPending", FALSE)),
                          !.start = "running"]
    /\ UNCHANGED <<svars, fvars, flt, ntf, upd>>

\* changes <- svc.Status{State: svc.Running, Accepts: ...}
ReportRunning ==
    /\ svc.pc = "report"
    /\ svc' = [svc EXCEPT !.pc = "loop",
                          !.log = Append(@, SvcEvent("status", "Running", FALSE))]
    /\ UNCHANGED <<svars, fvars, flt, ntf, upd>>

\* The goroutine: s.startHandler(ctx) returns err, which is to be sent on
\* errChan.
StartHandlerReturn(err) ==
    /\ svc.start = "running"
    /\ svc' = [svc EXCEPT !.start = "sending", !.result = err]
    /\ UNCHANGED <<svars, fvars, flt, ntf, upd>>

SendProceeds_Unbuffered(buffered, receiving) == receiving

\* errChan := make(chan error, 1): a send proceeds while the buffer of one is
\* not full, whether or not Execute is receiving.
SendProceeds(buffered, receiving) == buffered < 1

\* The goroutine's send: errChan <- err.  It is the goroutine's last statement.
SendResult ==
    /\ svc.start = "sending"
    /\ SendProceeds(IF svc.errChan = "empty" THEN 0 ELSE 1, svc.pc = "loop")
    /\ svc' = [svc EXCEPT !.start = "returned", !.errChan = svc.result]
    /\ UNCHANGED <<svars, fvars, flt, ntf, upd>>

\* case err := <-errChan: return false, 1 on an error and false, 0 without;
\* the deferred cancel() runs.
LoopErr ==
    /\ svc.pc = "loop"
    /\ svc.errChan # "empty"
    /\ svc' = [svc EXCEPT !.pc = "returned",
                          !.errChan = "empty",
                          !.errno = IF svc.errChan = "err" THEN 1 ELSE 0,
                          !.ctxCancelled = TRUE,
                          !.log = Append(@, SvcEvent("return", "", FALSE))]
    /\ UNCHANGED <<svars, fvars, flt, ntf, upd>>

\* case c := <-r: the request c, with its CurrentStatus cur, is received.
\* Interrogate goes on to send cur back, Stop and Shutdown begin the stop
\* sequence, every other command is ignored.
LoopRequest(cmd, cur) ==
    /\ svc.pc = "loop"
    /\ svc.requests < MaxRequests
    /\ svc' = [svc EXCEPT
                 !.requests = @ + 1,
                 !.log = Append(@, SvcEvent("request", cmd, FALSE)),
                 !.cur = IF cmd = "Interrogate" THEN cur ELSE @,
                 !.pc = IF cmd = "Interrogate" THEN "echo"
                        ELSE IF cmd \in {"Stop", "Shutdown"} THEN "stop" ELSE "loop",
                 !.step = IF cmd \in {"Stop", "Shutdown"} THEN 1 ELSE @]
    /\ UNCHANGED <<svars, fvars, flt, ntf, upd>>

\* case svc.Interrogate: changes <- c.CurrentStatus, taken by the service
\* manager; the loop goes on.
EchoStatus ==
    /\ svc.pc = "echo"
    /\ svc' = [svc EXCEPT !.pc = "loop",
                          !.cur = "none",
                          !.log = Append(@, SvcEvent("status", svc.cur, TRUE))]
    /\ UNCHANGED <<svars, fvars, flt, ntf, upd>>

StopSteps_HandlerBeforeCancel == <<"StopPending", "stopHandler", "cancel", "Stopped">>

\* The statements of the Stop/Shutdown case, in their order.
StopSteps == <<"StopPending", "cancel", "stopHandler", "Stopped">>

\* The next statement of the Stop/Shutdown case: changes <- StopPending;
\* cancel(); s.stopHandler() when it is not nil, its error only logged;
\* time.Sleep, changes <- Stopped and return false, 0.
StopStep(err) ==
    /\ svc.pc = "stop"
    /\ LET stmt == StopSteps[svc.step]
       IN  svc' =
             IF stmt = "StopPending"
             THEN [svc EXCEPT !.step = @ + 1,
                              !.log = Append(@, SvcEvent("status", "StopPending", FALSE))]
             ELSE IF stmt = "cancel"
             THEN [svc EXCEPT !.step = @ + 1,
                              !.ctxCancelled = TRUE,
                              !.log = Append(@, SvcEvent("cancel", "", FALSE))]
             ELSE IF stmt = "stopHandler"
             THEN IF svc.stopHandler
                  THEN [svc EXCEPT !.step = @ + 1,
                                   !.stopCalls = @ + 1,
                                   !.log = Append(@, SvcEvent("stopHandler", err, FALSE))]
                  ELSE [svc EXCEPT !.step = @ + 1]
             ELSE [svc EXCEPT !.step = 0,
                              !.pc = "returned",
                              !.errno = 0,
                              !.ctxCancelled = TRUE,
                              !.log = @ \o <<SvcEvent("status", "Stopped", FALSE),
                                             SvcEvent("return", "", FALSE)>>]
    /\ UNCHANGED <<svars, fvars, flt, ntf, upd>>

SvcInit ==
    /\ fcfg = FanCfg(FALSE, 1, 0, 0)
    /\ MonitorIdle
    /\ SchedIdle
    /\ FilterIdle /\ NotifierIdle /\ UpdaterIdle
    /\ svc \in {NewService(hasStop) : hasStop \in BOOLEAN}

SvcNext ==
    \/ ExecuteBegin
    \/ ReportRunning
    \/ \E err \in {"nil", "err"} : StartHandlerReturn(err)
    \/ SendResult
    \/ LoopErr
    \/ \E cmd \in SvcCmds, cur \in SvcStates : LoopRequest(cmd, cur)
    \/ EchoStatus
    \/ \E err \in {"nil", "err"} : StopStep(err)

SvcSpec == SvcInit /\ [][SvcNext]_vars


\* The states Execute reported of its own, the echoes of Interrogate left out.
OwnStates ==
    LET own(e) == e.ev = "status" /\ ~e.echo
        sel == SelectSeq(svc.log, own)
    IN  [k \in 1..Len(sel) |-> sel[k].arg]

\* a is a beginning of b.
BeginsSeq(a, b) == Len(a) <= Len(b) /\ \A k \in 1..Len(a) : a[k] = b[k]

\* The positions of the Stop and Shutdown requests in the log.
StopRequests ==
    {k \in 1..Len(svc.log) : svc.log[k].ev = "request" /\ svc.log[k].arg \in {"Stop", "Shutdown"}}

\* What Execute did after position k of the log: the states it reported and
\* the other events, by name.
DoneAfter(k) ==
    [j \in 1..(Len(svc.log) - k) |->
        IF svc.log[k + j].ev = "status" THEN svc.log[k + j].arg ELSE svc.log[k + j].ev]

\* What follows a Stop or Shutdown request.
StopSequence ==
    <<"StopPending", "cancel">>
        \o (IF svc.stopHandler THEN <<"stopHandler">> ELSE <<>>)
        \o <<"Stopped", "return">>

\* C27: Execute reports StartPending, then Running, and after a Stop or
\* Shutdown request StopPending, then Stopped, in this order; after such a
\* request it cancels the start handler's context, then calls the stop handler
\* (once; a nil stop handler is not called), reports Stopped and returns 0;
\* with no such request it reports no stop state and calls no stop handler.
C27_ServiceLifecycle ==
    svc.pc \notin {"idle", "new"} =>
        /\ BeginsSeq(OwnStates, <<"StartPending", "Running", "StopPending", "Stopped">>)
        /\ Cardinality(StopRequests) <= 1
        /\ StopRequests = {} =>
              /\ Len(OwnStates) <= 2
              /\ svc.stopCalls = 0
        /\ \A k \in StopRequests :
              /\ BeginsSeq(<<"StartPending", "Running">>, OwnStates)
              /\ BeginsSeq(DoneAfter(k), StopSequence)
              /\ svc.stopCalls > 0 => svc.ctxCancelled
              /\ svc.stopCalls <= 1
              /\ svc.pc # "returned" => ENABLED (\E err \in {"nil", "err"} : StopStep(err))
              /\ svc.pc = "returned" =>
                    /\ DoneAfter(k) = StopSequence
                    /\ svc.stopCalls = IF svc.stopHandler THEN 1 ELSE 0
                    /\ svc.errno = 0

\* Execute returned after an Interrogate, whose echo it sent back, and a
\* Shutdown: the stop handler, which failed, was called once with the context
\* cancelled, and the start handler has not returned.
C27_Witness ==
    /\ svc.pc = "returned"
    /\ svc.stopHandler
    /\ svc.stopCalls = 1
    /\ svc.start = "running"
    /\ OwnStates = <<"StartPending", "Running", "StopPending", "Stopped">>
    /\ \E k \in StopRequests : svc.log[k].arg = "Shutdown"
    /\ \E k \in 1..Len(svc.log) : svc.log[k].echo /\ svc.log[k].arg = "Stopped"
    /\ \E k \in 1..Len(svc.log) : svc.log[k].ev = "stopHandler" /\ svc.log[k].arg = "err"


(***************************************************************************)
(* The notifier's specification: one NotifyFailedJobs call on a list of up *)
(* to MaxJobs failed jobs of two servers, with grouping enabled or not,    *)
(* the pusher failing on any set of its pushes.                            *)
(***************************************************************************)
MaxJobs == 3           \* longest list given to NotifyFailedJobs

\* The failed jobs notified: two of one server, one of another.
NotifiedJobs ==
    {[ServerName |-> 1, JobName |-> ETL_Daily],
     [ServerName |-> 1, JobName |-> Backup_X],
     [ServerName |-> 2, JobName |-> ETL_Daily]}

\* The error of the pusher's nth push, 0 for nil: failing is the set of the
\* pushes that fail.
Push(nth, failing) == IF nth \in failing THEN nth ELSE 0

\* buildTitle(jobCount, serverCount)
buildTitle(jobCount, serverCount) ==
    IF jobCount = 1 THEN [form |-> "SQL Agent Job Failed", jobs |-> 0, servers |-> 0]
    ELSE IF serverCount = 1
    THEN [form |-> "%d SQL Agent Jobs Failed", jobs |-> jobCount, servers |-> 0]
    ELSE [form |-> "%d Jobs Failed on %d Servers", jobs |-> jobCount, servers |-> serverCount]

\* The limit buildBody uses when cfg.Grouping.MaxJobsPerNotification <= 0.
DefaultMaxJobs == 5

\* serverJobs[server] of sendGroupedNotification: the jobs of server, in the
\* list's order.
ServerJobs(failedJobs, server) ==
    LET OfServer(job) == job.ServerName = server
    IN  SelectSeq(failedJobs, OfServer)

\* The orders in which `range serverJobs` may visit the map's keys: every
\* order of the servers that have a job in the list.
VisitOrders(failedJobs) ==
    LET keys == {failedJobs[k].ServerName : k \in 1..Len(failedJobs)}
    IN  {o \in [1..Cardinality(keys) -> keys] :
            \A a, b \in 1..Cardinality(keys) : o[a] = o[b] => a = b}

\* buildBody's inner loop over srvJobs from its m-th job on: a job line per
\* job while fewer than maxJobs are shown, then the "... and %d more" line
\* when jobs remain, and the loop is left.
RECURSIVE JobLines(_, _, _, _, _, _)
JobLines(srvJobs, m, lines, shown, total, maxJobs) ==
    IF m > Len(srvJobs) THEN [lines |-> lines, shown |-> shown]
    ELSE IF shown >= maxJobs
    THEN [lines |-> IF total - shown > 0
                    THEN Append(lines, [line |-> "... and %d more", arg |-> total - shown])
                    ELSE lines,
          shown |-> shown]
    ELSE JobLines(srvJobs, m + 1,
                  Append(lines, [line |-> "job", arg |-> srvJobs[m].JobName]),
                  shown + 1, total, maxJobs)

\* buildBody's outer loop from the k-th visited server on: the server's line,
\* its jobs' lines, and the loop is left once maxJobs jobs are shown.
RECURSIVE ServerLines(_, _, _, _, _, _)
ServerLines(failedJobs, order, k, lines, shown, maxJobs) ==
    IF k > Len(order) THEN lines
    ELSE LET inner == JobLines(ServerJobs(failedJobs, order[k]), 1,
                               Append(lines, [line |-> "server", arg |-> order[k]]),
                               shown, Len(failedJobs), maxJobs)
         IN  IF inner.shown >= maxJobs THEN inner.lines
             ELSE ServerLines(failedJobs, order, k + 1, inner.lines, inner.shown, maxJobs)

\* buildBody(jobs, serverJobs) with cfg.Grouping.MaxJobsPerNotification =
\* setting, the map being visited in order.
buildBody(failedJobs, order, setting) ==
    LET maxJobs == IF setting <= 0 THEN DefaultMaxJobs ELSE setting
    IN  ServerLines(failedJobs, order, 1, <<>>, 0, maxJobs)

\* sendGroupedNotification: one notification for the whole list, titled with
\* the numbers of jobs and of servers, its message built by buildBody.
sendGroupedNotification(failedJobs, failing, order, setting) ==
    LET serverJobs == {failedJobs[k].ServerName : k \in 1..Len(failedJobs)}
        notification == [kind |-> "grouped",
                         title |-> buildTitle(Len(failedJobs), Cardinality(serverJobs)),
                         body |-> buildBody(failedJobs, order, setting),
                         of |-> failedJobs]
    IN  [pushes |-> <<notification>>, err |-> Push(1, failing)]

\* The notification sendSingleNotification builds for job.
SingleNotification(job) ==
    [kind |-> "single",
     title |-> [form |-> "Job Failed on %s", jobs |-> 0, servers |-> job.ServerName],
     of |-> <<job>>]

RECURSIVE SendEach_ContinueOnError(_, _, _, _)
SendEach_ContinueOnError(failedJobs, k, pushed, failing) ==
    IF k > Len(failedJobs)
    THEN [pushes |-> pushed,
          err |-> IF \E n \in 1..Len(pushed) : Push(n, failing) # 0
                  THEN CHOOSE n \in 1..Len(pushed) :
                           /\ Push(n, failing) # 0
                           /\ \A l \in 1..(n - 1) : Push(l, failing) = 0
                  ELSE 0]
    ELSE SendEach_ContinueOnError(failedJobs, k + 1,
                                  Append(pushed, SingleNotification(failedJobs[k])), failing)

\* NotifyFailedJobs' loop from job k on, pushed being the notifications pushed
\* so far: sendSingleNotification for each job, returning at the first error.
RECURSIVE SendEach(_, _, _, _)
SendEach(failedJobs, k, pushed, failing) ==
    IF k > Len(failedJobs) THEN [pushes |-> pushed, err |-> 0]
    ELSE LET sent == Append(pushed, SingleNotification(failedJobs[k]))
             err == Push(Len(sent), failing)
         IN  IF err # 0 THEN [pushes |-> sent, err |-> err]
             ELSE SendEach(failedJobs, k + 1, sent, failing)

\* The values of cfg.Grouping.MaxJobsPerNotification the calls are made with.
MaxJobsSettings == {0} \cup 1..(MaxJobs - 1)

\* Notifier.NotifyFailedJobs(failedJobs) with cfg.Grouping.Enabled = grouping
\* and cfg.Grouping.MaxJobsPerNotification = setting; order is the order in
\* which the grouped notification's map is visited.
NotifyFailedJobs(failedJobs, grouping, failing, order, setting) ==
    /\ ntf.pc = "idle"
    /\ LET out == IF Len(failedJobs) = 0 THEN [pushes |-> <<>>, err |-> 0]
                  ELSE IF grouping
                  THEN sendGroupedNotification(failedJobs, failing, order, setting)
                  ELSE SendEach(failedJobs, 1, <<>>, failing)
       IN  ntf' = [pc |-> "done", jobs |-> failedJobs, grouping |-> grouping, failing |-> failing,
                   order |-> order, maxJobs |-> setting,
                   pushes |-> out.pushes, err |-> out.err]
    /\ UNCHANGED <<svars, fvars, flt, svc, upd>>

NotifyInit ==
    /\ fcfg = FanCfg(FALSE, 1, 0, 0)
    /\ MonitorIdle
    /\ SchedIdle
    /\ FilterIdle /\ ServiceIdle /\ NotifierIdle /\ UpdaterIdle

\* One call is made, on any of the inputs.
NotifyNext ==
    /\ ntf.pc = "idle"
    /\ \E failedJobs \in SeqsUpTo(NotifiedJobs, MaxJobs), grouping \in BOOLEAN,
          failing \in SUBSET (1..MaxJobs), setting \in MaxJobsSettings :
           \E order \in VisitOrders(failedJobs) :
               NotifyFailedJobs(failedJobs, grouping, failing, order, setting)

NotifySpec == NotifyInit /\ [][NotifyNext]_vars

\* C28: NotifyFailedJobs pushes nothing for an empty list; with grouping
\* enabled it pushes one notification for a non-empty list and returns that
\* push's error; with grouping disabled it pushes one notification per job in
\* the list's order up to and including the first push that fails, whose error
\* it returns, and all of them when none fails.
C28_NotifyFailedJobs ==
    ntf.pc = "done" =>
        LET n == Len(ntf.jobs)
            failed == {k \in 1..n : k \in ntf.failing}
            last == IF failed = {} THEN n
                    ELSE CHOOSE k \in failed : \A l \in failed : k <= l
        IN  /\ n = 0 => (ntf.pushes = <<>> /\ ntf.err = 0)
            /\ (n > 0 /\ ntf.grouping) =>
                  /\ Len(ntf.pushes) = 1
                  /\ ntf.pushes[1].kind = "grouped"
                  /\ ntf.pushes[1].of = ntf.jobs
                  /\ ntf.err = IF 1 \in ntf.failing THEN 1 ELSE 0
            /\ (n > 0 /\ ~ntf.grouping) =>
                  /\ Len(ntf.pushes) = last
                  /\ \A k \in 1..last : /\ ntf.pushes[k].kind = "single"
                                        /\ ntf.pushes[k].of = <<ntf.jobs[k]>>
                  /\ ntf.err = IF failed = {} THEN 0 ELSE last

\* Three jobs, no grouping, the second and the third push failing: two pushes,
\* for the first two jobs, and the second push's error.
C28_Witness ==
    /\ ntf.pc = "done"
    /\ ~ntf.grouping
    /\ Len(ntf.jobs) = 3
    /\ ntf.failing = {2, 3}
    /\ Len(ntf.pushes) = 2
    /\ ntf.pushes[2].of = <<ntf.jobs[2]>>
    /\ ntf.err = 2


(***************************************************************************)
(* The updater's specification: one CheckForUpdate or Update call on an    *)
(* Updater built with a current version, DetectLatest failing, finding no  *)
(* release or finding one, on a supported platform or not, UpdateTo        *)
(* failing or not.                                                         *)
(***************************************************************************)
V100 == <<"1", ".", "0", ".", "0">>
V110 == <<"1", ".", "1", ".", "0">>

\* The version strings the binary is built with.
CurrentVersions ==
    {<<>>, <<"v">>, <<"d", "e", "v">>, V100, V110, <<"v">> \o V100, <<"v">> \o V110,
     <<"v", "v">> \o V100}

\* What selfUpdater.DetectLatest returns: an error, no release, or a release
\* whose Version.String() is version.
DetectOutcomes ==
    {[err |-> TRUE, found |-> FALSE, version |-> <<>>],
     [err |-> FALSE, found |-> FALSE, version |-> <<>>],
     [err |-> FALSE, found |-> TRUE, version |-> V100],
     [err |-> FALSE, found |-> TRUE, version |-> V110]}

cleanVersion_Keep(v) == v

\* cleanVersion removes one leading 'v'.
cleanVersion(v) == IF v # <<>> /\ v[1] = "v" THEN SubSeq(v, 2, Len(v)) ELSE v

\* NewUpdater(cfg, currentVersion)
NewUpdater(currentVersion) ==
    [pc |-> "new", op |-> "none", currentVersion |-> currentVersion,
     detect |-> [err |-> FALSE, found |-> FALSE, version |-> <<>>],
     supported |-> TRUE, updateToCalls |-> 0, updateToErr |-> FALSE,
     result |-> "none", err |-> "none"]

\* result := &UpdateResult{CurrentVersion: u.currentVersion}
NewResult(currentVersion) ==
    [CurrentVersion |-> currentVersion, LatestVersion |-> <<>>,
     UpdateAvailable |-> FALSE, Applied |-> FALSE, Error |-> ""]

\* Updater.CheckForUpdate, DetectLatest answering detect.
CheckForUpdate(detect) ==
    /\ upd.pc = "new"
    /\ LET result == NewResult(upd.currentVersion)
           currentVer == cleanVersion(upd.currentVersion)
           out ==
             IF detect.err THEN [result |-> [result EXCEPT !.Error = "detect"], err |-> "detect"]
             ELSE IF ~detect.found THEN [result |-> result, err |-> "nil"]
             ELSE [result |-> [result EXCEPT
                                 !.LatestVersion = detect.version,
                                 !.UpdateAvailable =
                                     currentVer # <<>> /\ detect.version # currentVer],
                   err |-> "nil"]
       IN  upd' = [upd EXCEPT !.pc = "done", !.op = "CheckForUpdate", !.detect = detect,
                              !.result = out.result, !.err = out.err]
    /\ UNCHANGED <<svars, fvars, flt, svc, ntf>>

\* Updater.Update, DetectLatest answering detect, on windows/amd64 or not
\* (supported), UpdateTo failing or not (updateToErr).
Update(detect, supported, updateToErr) ==
    /\ upd.pc = "new"
    /\ LET result == NewResult(upd.currentVersion)
           currentVer == cleanVersion(upd.currentVersion)
           found == [result EXCEPT !.LatestVersion = detect.version]
           needed == [found EXCEPT !.UpdateAvailable = TRUE]
           out ==
             IF detect.err
             THEN [result |-> [result EXCEPT !.Error = "detect"], err |-> "detect", calls |-> 0]
             ELSE IF ~detect.found
             THEN [result |-> result, err |-> "no release found", calls |-> 0]
             ELSE IF currentVer = detect.version
             THEN [result |-> found, err |-> "nil", calls |-> 0]
             ELSE IF ~supported
             THEN [result |-> [needed EXCEPT !.Error = "unsupported platform"],
                   err |-> "unsupported platform", calls |-> 0]
             ELSE IF updateToErr
             THEN [result |-> [needed EXCEPT !.Error = "update"], err |-> "update", calls |-> 1]
             ELSE [result |-> [needed EXCEPT !.Applied = TRUE], err |-> "nil", calls |-> 1]
       IN  upd' = [upd EXCEPT !.pc = "done", !.op = "Update", !.detect = detect,
                              !.supported = supported,
                              !.updateToCalls = out.calls, !.updateToErr = updateToErr,
                              !.result = out.result, !.err = out.err]
    /\ UNCHANGED <<svars, fvars, flt, svc, ntf>>

UpdInit ==
    /\ fcfg = FanCfg(FALSE, 1, 0, 0)
    /\ MonitorIdle
    /\ SchedIdle
    /\ FilterIdle /\ ServiceIdle /\ NotifierIdle
    /\ upd \in {NewUpdater(v) : v \in CurrentVersions}

UpdNext ==
    \/ \E detect \in DetectOutcomes : CheckForUpdate(detect)
    \/ \E detect \in DetectOutcomes, supported \in BOOLEAN, updateToErr \in BOOLEAN :
          Update(detect, supported, updateToErr)

UpdSpec == UpdInit /\ [][UpdNext]_vars

\* The current version without one leading 'v'.
Stripped(v) == IF Len(v) > 0 /\ Head(v) = "v" THEN Tail(v) ELSE v

\* Update called UpdateTo only with a release found whose version differs from
\* the stripped current version, and set Applied exactly when UpdateTo was
\* called once and returned no error.
UpdateAppliesOnlyNewer ==
    upd.op = "Update" =>
        /\ upd.updateToCalls > 0 =>
              (upd.detect.found /\ upd.detect.version # Stripped(upd.currentVersion))
        /\ upd.result.Applied <=> (upd.updateToCalls = 1 /\ ~upd.updateToErr)
        /\ upd.result.Applied => upd.err = "nil"

\* C29, as the code has it: CheckForUpdate reports UpdateAvailable exactly when
\* a latest release is found, the current version with a leading 'v' stripped
\* is not empty, and the release's version differs from it; Update calls
\* UpdateTo only when the versions differ and sets Applied only after UpdateTo
\* returned no error.
C29_UpdateAvailableNonEmptyVersion ==
    /\ upd.op = "CheckForUpdate" =>
          (upd.result.UpdateAvailable <=>
              /\ upd.detect.found
              /\ Stripped(upd.currentVersion) # <<>>
              /\ upd.detect.version # Stripped(upd.currentVersion))
    /\ UpdateAppliesOnlyNewer

\* C29, as stated: CheckForUpdate reports UpdateAvailable exactly when a latest
\* release is found and its version differs from the current version with a
\* leading 'v' stripped; Update calls UpdateTo only when the versions differ
\* and sets Applied only after UpdateTo returned no error.
C29_UpdateAvailableWhenVersionsDiffer ==
    /\ upd.op = "CheckForUpdate" =>
          (upd.result.UpdateAvailable <=>
              /\ upd.detect.found
              /\ upd.detect.version # Stripped(upd.currentVersion))
    /\ UpdateAppliesOnlyNewer

\* CheckForUpdate on a binary built as "v1.0.0" found release 1.1.0 and
\* reported an update available.
C29_Witness ==
    /\ upd.op = "CheckForUpdate"
    /\ upd.currentVersion = <<"v">> \o V100
    /\ upd.detect.found
    /\ upd.detect.version = V110
    /\ upd.result.UpdateAvailable
    /\ upd.result.LatestVersion = V110


(***************************************************************************)
(* Claims about the retry cycle and the caller's context.                  *)
(***************************************************************************)
\* C30: once the context given to Start is cancelled, a retry cycle in progress
\* makes no further handler call: runCheck neither calls the handler again nor
\* waits out the delay to do so.
C30_CancelAbortsRetryCycle ==
    [][ctxCancelled =>
          \A j \in DOMAIN rc :
              Running(rc[j]) => rc'[j].calls <= rc[j].calls]_vars


\* C31: once the context is cancelled, the checks that had not started (workers
\* still before their semaphore slot, later servers of the sequential loop)
\* are not started: no call is made on the database package for them.
C31_CancelSkipsUnstartedChecks ==
    mctx.cancelled =>
        \A i \in 1..NumServers :
            i \notin (mctx.done \cup mctx.inflight) =>
                probes[EnabledServers[i].Name] = <<>>


\* C32: the delay is slept only between attempts: a firing is in its sleep only
\* after a failed attempt that is not the last one, and a firing that has made
\* n >= 1 handler calls has slept n - 1 times when it runs the n-th call and
\* when it has returned, be it after a successful attempt or after the last
\* failed one; a firing that made no call did not sleep.
C32_SleepsBetweenAttemptsOnly ==
    \A j \in DOMAIN rc :
        rc[j].pc # "idle" =>
            /\ rc[j].pc = "sleep" =>
                  /\ rc[j].sleeps = rc[j].calls
                  /\ rc[j].calls < rc[j].attempts
                  /\ rc[j].fails = rc[j].calls
            /\ (rc[j].pc \in {"handler", "done"} /\ rc[j].calls >= 1) =>
                  rc[j].sleeps = rc[j].calls - 1
            /\ rc[j].calls = 0 => rc[j].sleeps = 0

\* Three attempts, all failed: the firing returned after two sleeps, none
\* after the last attempt.
C32_Witness ==
    \E j \in DOMAIN rc :
        /\ rc[j].pc = "done"
        /\ rc[j].calls = 3 /\ rc[j].fails = 3
        /\ rc[j].sleeps = 2


\* The check of index i of the CheckAll call pinged its server successfully and
\* then failed in QueryFailedJobs.
QueryFailed(i) ==
    /\ "QueryFailedJobs" \in Range(probes[EnabledServers[i].Name])
    /\ results[i].Error

\* C33: a server whose Ping succeeds and whose QueryFailedJobs fails is counted
\* as available, is not in the unavailable list, contributes no failed job,
\* and its error stays on its result: CheckAll returns no error.
C33_QueryErrorIsData ==
    (mpc = "returned" /\ NumServers > 0 /\ ~single.called) =>
        /\ report.ServersAvailable =
               Cardinality({i \in 1..NumServers :
                               "Ping" \in Range(probes[EnabledServers[i].Name])
                               /\ (results[i].Error => QueryFailed(i))})
        /\ \A i \in 1..NumServers :
              QueryFailed(i) =>
                  /\ results[i].Available
                  /\ results[i].FailedJobs = <<>>
                  /\ EnabledServers[i].Name \notin Range(report.ServersUnavailable)
                  /\ \A k \in 1..Len(report.FailedJobs) :
                         report.FailedJobs[k].ServerName # EnabledServers[i].Name
                  /\ checkErr = "nil"

\* A server with failed rows was pinged and its query was cut short: it is
\* the only server, and the report says success on one available server.
C33_Witness ==
    /\ mpc = "returned"
    /\ ~single.called
    /\ NumServers = 1
    /\ QueryFailed(1)
    /\ fcfg.db[EnabledServers[1].Name].rows # <<>>
    /\ report.Status = "success"
    /\ report.ServersAvailable = 1
    /\ report.FailedJobs = <<>>


\* The number of calls named op among calls.
CountCalls(calls, op) == Cardinality({k \in 1..Len(calls) : calls[k] = op})

\* C34: in every check of a cycle whose connection was made, Close is called
\* on it exactly once, as the last call, whether Ping failed, the query failed
\* or both succeeded; a check whose connection could not be made calls nothing
\* after database.New.
C34_ConnectionClosedOnce ==
    \A name \in DOMAIN probes :
        probes[name] # <<>> =>
            LET calls == probes[name]
            IN  /\ calls[1] = "New"
                /\ CountCalls(calls, "New") = 1
                /\ IF fcfg.db[name].newErr
                   THEN calls = <<"New">>
                   ELSE /\ CountCalls(calls, "Close") = 1
                        /\ calls[Len(calls)] = "Close"
                        /\ fcfg.db[name].pingErr => calls = <<"New", "Ping", "Close">>
                        /\ (~fcfg.db[name].pingErr /\ fcfg.db[name].queryErr) =>
                               calls = <<"New", "Ping", "QueryFailedJobs", "Close">>

\* A cycle over two servers returned: one's Ping failed, the other's query
\* failed, and both connections were closed.
C34_Witness ==
    /\ mpc = "returned"
    /\ \E a, b \in DOMAIN probes :
          /\ fcfg.db[a].pingErr /\ probes[a] = <<"New", "Ping", "Close">>
          /\ fcfg.db[b].queryErr /\ probes[b] = <<"New", "Ping", "QueryFailedJobs", "Close">>


\* The lines of the body of kind.
BodyLines(body, kind) == {k \in 1..Len(body) : body[k].line = kind}

\* C35: the body of a grouped notification lists at most the configured
\* number of job names (DefaultMaxJobs when the setting is not positive), and
\* when the list has more jobs than that the body has an "... and X more"
\* line, X being the number of jobs not listed, in whatever order the servers
\* are visited.
C35_BodyCountsTheRest ==
    (ntf.pc = "done" /\ ntf.grouping /\ Len(ntf.jobs) > 0) =>
        LET body == ntf.pushes[1].body
            limit == IF ntf.maxJobs <= 0 THEN DefaultMaxJobs ELSE ntf.maxJobs
            listed == Cardinality(BodyLines(body, "job"))
        IN  /\ listed <= limit
            /\ Len(ntf.jobs) > limit =>
                  \E k \in BodyLines(body, "... and %d more") :
                      body[k].arg = Len(ntf.jobs) - listed


\* C36: a firing that has ended has called the handler at least once,
\* whatever the retry configuration.
C36_FiringCallsHandler ==
    \A j \in DOMAIN rc : rc[j].pc = "done" => rc[j].calls >= 1


\* C37: at most one firing of the Scheduler is running at any time, so the
\* handler invocations of two triggers never overlap.
C37_OneCycleAtATime ==
    Cardinality({j \in DOMAIN rc : Running(rc[j])}) <= 1


\* Worker i is at position pc of its goroutine.
WorkerAt(i, pc) == i \in DOMAIN wpc /\ wpc[i] = pc

\* C38: under fair scheduling the parallel fan-out terminates: once
\* checkParallel has begun, CheckAll returns with every worker finished, the
\* wait group at zero and no slot held; and every worker that waits for a slot
\* gets one and comes to give it back.
C38_FanOutTerminates ==
    /\ (mpc \in {"spawn", "wait"}) ~>
           (/\ mpc = "returned"
            /\ sem = 0 /\ wg = 0
            /\ \A i \in 1..NumServers : wpc[i] = "done")
    /\ \A i \in 1..MaxFairServers : WorkerAt(i, "acquire") ~> WorkerAt(i, "check")
    /\ \A i \in 1..MaxFairServers : WorkerAt(i, "check") ~> WorkerAt(i, "wgdone")

\* A cycle over more servers than slots returned: limit 1, the most servers,
\* every worker done and the slot free.
C38_Witness ==
    /\ mpc = "returned"
    /\ fcfg.MaxConcurrent = 1
    /\ NumServers = MaxFairServers
    /\ sem = 0
    /\ \A i \in 1..NumServers : wpc[i] = "done"


\* The form of a summary: its parts are one text, a text with a number in it,
\* or the six parts of the failed-jobs sentence.
SummaryForm(summary) ==
    IF Len(summary) = 1 THEN "No enabled servers configured"
    ELSE IF Len(summary) = 6 THEN "N failed job(s) on M server(s)"
    ELSE IF summary[1] = "All" THEN "All N servers unavailable"
    ELSE "No failed jobs on N servers"

\* The summary of cr says what its status says.
SummaryAgrees(cr) ==
    LET form == SummaryForm(cr.Summary)
    IN  /\ cr.Status = "error" <=>
               form \in {"All N servers unavailable", "No enabled servers configured"}
        /\ cr.Status = "failed_jobs" <=> form = "N failed job(s) on M server(s)"
        /\ cr.Status = "success" <=> form = "No failed jobs on N servers"
        /\ cr.Status \in {"error", "failed_jobs", "success"}
        /\ form = "All N servers unavailable" =>
               cr.Summary = <<"All", cr.ServersChecked, "servers unavailable">>
        /\ form = "No enabled servers configured" => cr.ServersChecked = 0
        /\ form = "N failed job(s) on M server(s)" =>
               /\ cr.Summary[1] = Len(cr.FailedJobs)
               /\ cr.Summary[3] = (IF Len(cr.FailedJobs) = 1 THEN "job" ELSE "jobs")
               /\ cr.Summary[5] = Cardinality({cr.FailedJobs[k].ServerName :
                                                  k \in 1..Len(cr.FailedJobs)})
               /\ cr.Summary[6] = (IF cr.Summary[5] = 1 THEN "server" ELSE "servers")
        /\ form = "No failed jobs on N servers" =>
               cr.Summary = <<"No failed jobs on", cr.ServersAvailable, "servers">>

\* C39: in the report CheckAll returns and in the one CheckServer returns with
\* no error, the summary agrees with the status: error with "All N servers
\* unavailable" (N the servers checked) or "No enabled servers configured",
\* failed_jobs with "N failed job(s) on M server(s)" (N the jobs in the
\* report), success with "No failed jobs on N servers" (N the servers
\* available).
C39_SummaryAgreesWithStatus ==
    /\ mpc = "returned" => SummaryAgrees(report)
    /\ (single.called /\ single.err = "nil") => SummaryAgrees(single.report)

\* CheckAll reported failed jobs and CheckServer, on a server that cannot be
\* reached, reported the error status with "All 1 servers unavailable".
C39_Witness ==
    /\ mpc = "returned"
    /\ report.Status = "failed_jobs"
    /\ report.Summary[1] = Len(report.FailedJobs)
    /\ single.called /\ single.err = "nil"
    /\ single.report.Status = "error"
    /\ single.report.Summary = <<"All", 1, "servers unavailable">>


\* C40: the goroutine that ran the start handler is never blocked on its
\* send: whenever it has a result to deliver the send on errChan can be made,
\* whether Execute is reporting, in its loop, sending an Interrogate's status
\* back, in the stop sequence or has returned; and nothing was in the channel
\* before it.
C40_ResultSendNeverBlocks ==
    svc.pc # "idle" =>
        (svc.start = "sending" =>
            /\ ENABLED SendResult
            /\ svc.errChan = "empty")

\* Execute returned on a Stop or Shutdown request, the start handler returned
\* after that, and its result was delivered into the channel.
C40_Witness ==
    /\ svc.pc = "returned"
    /\ svc.start = "returned"
    /\ svc.errChan # "empty"
    /\ \E k \in 1..Len(svc.log) : svc.log[k].ev = "status" /\ svc.log[k].arg = "Stopped"
====
